---- MODULE Spec2Model ----
(***************************************************************************)
(* State-machine model of the LM Studio LAN gateway:                       *)
(*   - the proxy path (proxyHandler) and its lifecycle events,             *)
(*   - the admin routes (load / unload / activate) and /debug/status,      *)
(*   - the control client (LMStudioClientService),                         *)
(*   - the log tailer (LMStudioLogMonitor).                                *)
(* Node.js runs one callback at a time: every action below is one          *)
(* synchronous segment of a handler, from one await (or event) to the      *)
(* next.                                                                   *)
(***************************************************************************)
EXTENDS Integers, Sequences, FiniteSets, TLC

VARIABLES
  appState,      \* AppState: activeModel + debugState (index.ts createApp)
  events,        \* every event handed to broadcastDebugEvent, in order
  responses,     \* admin / debug HTTP responses sent, in order
  reqs,          \* proxied requests: position and locals of proxyHandler
  client,        \* LMStudioClientService.client (0 = null, else session id)
  connecting,    \* LMStudioClientService.connecting (0 = null, else connect id)
  conns,         \* connect() invocations: position and attempt counter
  backend,       \* models loaded in the backend: set of [path, identifier]
  health,        \* healthCheck() invocations in flight
  ops,           \* admin load / unload handlers: position and locals
  fs,            \* the backend log directory tree (environment)
  mon,           \* LMStudioLogMonitor fields
  tasks,         \* tailer callbacks in flight (reads, add handlers, month checks)
  subs,          \* GET /debug/stream connections: listener, timer, res buffer
  server         \* settings, the HTTP server and the requests its filter saw

vars == <<appState, events, responses, reqs, client, connecting, conns,
          backend, health, ops, fs, mon, tasks, subs, server>>

controlVars == <<client, connecting, conns, backend, health>>
tailVars    == <<fs, mon, tasks>>

----------------------------------------------------------------------------
(* Bounds of the model *)

MaxReq == 2          \* proxied requests
MaxOps == 3          \* admin handler invocations (slots of ops)
MaxAdmin == 2        \* of these, load / unload requests
MaxConn == 3         \* connect() invocations
MaxHealth == 1       \* healthCheck() invocations
MaxStatus == 1       \* GET /debug/status requests
MaxActivate == 1     \* POST /admin/models/activate requests
MaxLines == 1        \* log lines the backend appends
MaxTasks == 2        \* tailer callbacks in flight at once
MaxTruncate == 1     \* in-place truncations of a log file
MaxCompletions == 102  \* completed requests in the record-ring specification
MaxFailures == 1     \* failed requests in the record-ring specification
MaxSubs == 2         \* GET /debug/stream connections
MaxEvents == 3       \* events published in the event-bus specification
MaxKeepAlive == 1    \* keep-alive timer firings per connection
MaxQueue == 2        \* queue capacity a subscriber's buffer is held against
MaxFiltered == 2     \* requests put through the access filter
MaxRejected == 2     \* activate requests rejected by validation
MaxMetrics == 1      \* GET /debug/metrics requests
MaxWritten == 2      \* lines written in chunks to the log file

Reqs == 1..MaxReq
OpIds == 1..MaxOps
AdminOps == 1..MaxAdmin
ConnIds == 1..MaxConn
SubIds == 1..MaxSubs
HealthIds == 1..MaxHealth

----------------------------------------------------------------------------
(* Values *)

Null == "null"            \* JavaScript null
Undef == "undefined"      \* JavaScript undefined / absent field

\* JavaScript truthiness of a body field
Truthy(v) == v \notin {Undef, Null, "", "false"}

ModelKeys == {"m1", "m2"}
InstanceIds == {Undef, "i1"}

\* defaultInference records: the sampling fields the proxy injects
NoDefaults == [temperature |-> Undef, stream |-> Undef]
DefaultInferences ==
  { NoDefaults, [temperature |-> "0.2", stream |-> "true"] }

NoOperation == [type |-> Null, modelKey |-> Null]

RingSize == 100

----------------------------------------------------------------------------
(* AppState, src/src/index.ts createApp *)

InitAppState ==
  [ activeModel |-> [modelKey |-> Null, instanceId |-> Null,
                     defaultInference |-> NoDefaults],
    debugState  |-> [status |-> "idle",
                     currentOperation |-> NoOperation,
                     recentRequests |-> << >>,
                     totalRequests |-> 0,
                     totalErrors |-> 0] ]

\* payload.instanceId || null
OrNull(v) == IF v = Undef \/ v = "" THEN Null ELSE v

PushRecentNoEvict(rr, rec) == Append(rr, rec)

\* recentRequests.push(rec); if (length > 100) recentRequests = slice(-100)
PushRecent(rr, rec) ==
  LET s == Append(rr, rec)
  IN  IF Len(s) > RingSize THEN SubSeq(s, Len(s) - RingSize + 1, Len(s)) ELSE s

RecordCompletedNoCount(st, r) ==
  [st EXCEPT !.debugState.recentRequests =
                 PushRecent(@, [requestId |-> r, status |-> "completed"])]

\* the state update of a completed proxied request
RecordCompleted(st, r) ==
  [st EXCEPT !.debugState.totalRequests = @ + 1,
             !.debugState.recentRequests =
                 PushRecent(@, [requestId |-> r, status |-> "completed"])]

IncErrorsTwice(st) == [st EXCEPT !.debugState.totalErrors = @ + 2]

\* appState.debugState.totalErrors++
IncErrors(st) == [st EXCEPT !.debugState.totalErrors = @ + 1]

----------------------------------------------------------------------------
(* Settings, access filter and HTTP server: index.ts, middleware *)

\* the environment defaults of envSchema
DefaultSettings ==
  [gatewayApiKey |-> "", requireAuthForHealth |-> FALSE, ipAllowlistItems |-> {"*"}]

\* environments the gateway may be started with
SettingsSet ==
  [gatewayApiKey : {"", "k1"}, requireAuthForHealth : BOOLEAN,
   ipAllowlistItems : {{"*"}, {"lan"}}]

InitServer ==
  [ settings |-> DefaultSettings,
    configured |-> FALSE,  \* the environment was read (settings are final)
    log |-> << >>,         \* requests the filter saw, with its verdict
    listening |-> TRUE,    \* the HTTP server accepts new connections
    closing |-> FALSE,     \* server.close() was called
    exitCode |-> Null ]    \* process.exit(code) was called

\* requests a client may send: address, path, X-API-Key header
ClientRequests ==
  [ip : {"lan", "wan"},
   path : {"/health", "/admin/models/activate", "/v1/chat/completions"},
   apiKey : {Undef, "k1", "bad"}]

\* ipAllowlistMiddleware: TRUE when it calls next()
ipAllowlistMiddleware(q, settings) ==
  \/ "*" \in settings.ipAllowlistItems
  \/ q.ip \in settings.ipAllowlistItems

apiKeyMiddlewareNoHealth(q, settings) ==
  \/ settings.gatewayApiKey = ""
  \/ (Truthy(q.apiKey) /\ q.apiKey = settings.gatewayApiKey)

\* apiKeyMiddleware: TRUE when it calls next()
apiKeyMiddleware(q, settings) ==
  \/ settings.gatewayApiKey = ""
  \/ (q.path = "/health" /\ ~settings.requireAuthForHealth)
  \/ (Truthy(q.apiKey) /\ q.apiKey = settings.gatewayApiKey)

\* app.use order: address check, then shared-secret check, then the routes
Verdict(q, settings) ==
  IF ~ipAllowlistMiddleware(q, settings) THEN "403"
  ELSE IF ~apiKeyMiddleware(q, settings) THEN "401"
  ELSE "pass"

----------------------------------------------------------------------------
(* Event bus: broadcastDebugEvent and GET /debug/stream *)

InitSub ==
  [ pc |-> "free",         \* free, open, gone (socket closed), closed
    listening |-> FALSE,   \* eventListener is registered on the emitter
    interval |-> FALSE,    \* keepAliveInterval is active
    buf |-> << >>,         \* chunks res.write() accepted, not yet read
    rcvd |-> << >>,        \* chunks the client has read, in wire order
    writes |-> 0,          \* res.write() calls made on this response
    ticks |-> 0,           \* keep-alive timer firings
    goneAt |-> 0,          \* events published when the client went away
    closedAt |-> 0 ]       \* events published when the 'close' handler ran

\* an SSE chunk: the connected event, event number n, or a keep-alive comment
Chunk(k, n) == [k |-> k, n |-> n]

\* res.write(chunk): buffered by the response while the socket is open (the
\* return value is ignored); a write to a destroyed socket is discarded
resWrite(sub, chunk) ==
  [sub EXCEPT !.writes = @ + 1,
              !.buf = IF sub.pc = "open" THEN Append(@, chunk) ELSE @]

eventListenerUnshift(sub, n) ==
  [sub EXCEPT !.writes = @ + 1,
              !.buf = IF sub.pc = "open" THEN <<Chunk("event", n)>> \o @ ELSE @]

\* the listener of one connection: res.write of the encoded event
eventListener(sub, n) == resWrite(sub, Chunk("event", n))

emitUntilThrow(ss, n) ==
  [s \in SubIds |->
     IF /\ ss[s].listening
        /\ ~\E t \in 1..(s - 1) : ss[t].listening /\ ss[t].pc = "gone"
     THEN eventListener(ss[s], n) ELSE ss[s]]

\* debugEventEmitter.emit('debug-event', event): every registered listener
\* is called synchronously with event number n
emit(ss, n) ==
  [s \in SubIds |-> IF ss[s].listening THEN eventListener(ss[s], n) ELSE ss[s]]

\* emit for the events numbered from + 1 .. to, in order
RECURSIVE EmitAll(_, _, _)
EmitAll(ss, from, to) ==
  IF from >= to THEN ss ELSE EmitAll(emit(ss, from + 1), from + 1, to)

\* broadcastDebugEvent for each event a step publishes: published is the
\* list of all events after the step
Broadcast(published) ==
  /\ events' = published
  /\ subs' = EmitAll(subs, Len(events), Len(published))

busFrame == <<appState, responses, reqs, controlVars, ops, tailVars, server>>

\* event types of the generic publisher
BusEventTypes == {"debug_log"}

\* some component calls broadcastDebugEvent(type, data)
Publish(type) ==
  /\ Len(events) < MaxEvents
  /\ Broadcast(Append(events, [type |-> type]))
  /\ UNCHANGED busFrame

\* GET /debug/stream: headers, connected event, listener, keep-alive timer
SseConnect(s) ==
  /\ server.listening
  /\ subs[s].pc = "free"
  /\ \A t \in 1..(s - 1) : subs[t].pc # "free"
  /\ subs' = [subs EXCEPT ![s] =
        [resWrite([InitSub EXCEPT !.pc = "open"], Chunk("connected", 0))
           EXCEPT !.listening = TRUE, !.interval = TRUE]]
  /\ UNCHANGED <<events, busFrame>>

\* the keep-alive timer of a connection fires
KeepAlive(s) ==
  /\ subs[s].interval
  /\ subs[s].ticks < MaxKeepAlive
  /\ subs' = [subs EXCEPT ![s] =
        [resWrite(subs[s], Chunk("ka", 0)) EXCEPT !.ticks = @ + 1]]
  /\ UNCHANGED <<events, busFrame>>

\* the client reads the next chunk from the connection
Drain(s) ==
  /\ subs[s].pc = "open"
  /\ subs[s].buf # << >>
  /\ subs' = [subs EXCEPT ![s].rcvd = Append(@, Head(subs[s].buf)),
                          ![s].buf = Tail(@)]
  /\ UNCHANGED <<events, busFrame>>

\* the client disconnects: the socket is destroyed with what it buffered
ClientGone(s) ==
  /\ subs[s].pc = "open"
  /\ subs' = [subs EXCEPT ![s].pc = "gone", ![s].buf = << >>,
                          ![s].goneAt = Len(events)]
  /\ UNCHANGED <<events, busFrame>>

SseCloseHandlerNoClear(sub) ==
  [sub EXCEPT !.pc = "closed", !.listening = FALSE, !.closedAt = Len(events)]

\* the req 'close' handler: off('debug-event'), clearInterval
SseCloseHandler(sub) ==
  [sub EXCEPT !.pc = "closed", !.listening = FALSE, !.interval = FALSE,
              !.closedAt = Len(events)]

\* Node emits 'close' on the request of a connection whose socket closed
SseClose(s) ==
  /\ server.exitCode = Null
  /\ subs[s].pc = "gone"
  /\ subs' = [subs EXCEPT ![s] = SseCloseHandler(subs[s])]
  /\ UNCHANGED <<events, busFrame>>

----------------------------------------------------------------------------
(* Proxy path: proxyHandler *)

\* request bodies a client may send to /v1/chat/completions
ProxyBodies ==
  [model : {Undef, "cm"}, temperature : {Undef}, stream : {Undef, "true"}]

AugmentModelKey(body, am) ==
  LET b1 == IF ~Truthy(body.model) /\ Truthy(am.modelKey)
            THEN [body EXCEPT !.model = am.modelKey]
            ELSE body
      d  == am.defaultInference
      b2 == IF d.temperature # Undef /\ b1.temperature = Undef
            THEN [b1 EXCEPT !.temperature = d.temperature] ELSE b1
      b3 == IF d.stream # Undef /\ b2.stream = Undef
            THEN [b2 EXCEPT !.stream = d.stream] ELSE b2
  IN  b3

\* auto-injection of the active model and of the default inference params
Augment(body, am) ==
  LET b1 == IF ~Truthy(body.model) /\ Truthy(am.modelKey)
            THEN [body EXCEPT !.model =
                    IF Truthy(am.instanceId) THEN am.instanceId ELSE am.modelKey]
            ELSE body
      d  == am.defaultInference
      b2 == IF d.temperature # Undef /\ b1.temperature = Undef
            THEN [b1 EXCEPT !.temperature = d.temperature] ELSE b1
      b3 == IF d.stream # Undef /\ b2.stream = Undef
            THEN [b2 EXCEPT !.stream = d.stream] ELSE b2
  IN  b3

NoBody == [model |-> Undef, temperature |-> Undef, stream |-> Undef]

InitReq ==
  [ pc |-> "new",            \* new, axios, streaming, done
    body |-> NoBody,         \* requestBody as forwarded
    streamEnded |-> FALSE,   \* the handler's streamEnded flag
    upEnd |-> FALSE,         \* upstream emitted 'end'
    upError |-> FALSE,       \* upstream emitted 'error'
    upDestroyed |-> FALSE,   \* response.data.destroy() was called
    closed |-> FALSE,        \* the client connection closed (req 'close')
    headersSent |-> FALSE,   \* res.headersSent: a chunk was piped to res
    path |-> "",             \* targetPath
    clientBody |-> NoBody,   \* req.body as the client sent it
    effects |-> << >> ]      \* what the handler did for the request, in
                             \* statement order: "record" (totalRequests++
                             \* and recentRequests.push), "respond" (res.json
                             \* or res.end)

InferenceStart(r)    == [type |-> "inference_start", requestId |-> r]
InferenceComplete(r) == [type |-> "inference_complete", requestId |-> r]
ProxyError(r)        == [type |-> "error", requestId |-> r]

\* request bodies with fields the client provided, also empty ones
ClientBodies ==
  [model : {Undef, "", "cm"}, temperature : {Undef, "0.9"}, stream : {Undef, "false"}]

\* paths the proxy router serves
ProxyPaths == {"/chat/completions", "/v1/chat/completions", "/v1/embeddings"}

\* shorthand endpoints are forwarded with the /v1 prefix
TargetPath(p) == IF p = "/chat/completions" THEN "/v1/chat/completions" ELSE p

\* targetPath.includes('/chat/completions') || targetPath.includes('/completions')
IsCompletionPath(tp) == tp \in {"/v1/chat/completions", "/v1/completions"}

\* proxyHandler for a POST to path with body, up to the axios call:
\* inference_start, augmentation
ProxyEntry(r, path, body) ==
  /\ server.listening
  /\ reqs[r].pc = "new"
  /\ \A q \in 1..(r - 1) : reqs[q].pc # "new"
  /\ reqs' = [reqs EXCEPT ![r].pc = "axios",
                          ![r].path = TargetPath(path),
                          ![r].clientBody = body,
                          ![r].body = IF IsCompletionPath(TargetPath(path))
                                      THEN Augment(body, appState.activeModel)
                                      ELSE body]
  /\ Broadcast(Append(events, InferenceStart(r)))
  /\ UNCHANGED <<appState, responses, controlVars, ops, tailVars>>

\* a chat completion request arrives
ProxyStart(r) ==
  /\ \E body \in ProxyBodies : ProxyEntry(r, "/v1/chat/completions", body)
  /\ UNCHANGED server

\* a POST to any proxied path, with any client body
ProxyStartAny(r) ==
  /\ \E path \in ProxyPaths : \E body \in ClientBodies : ProxyEntry(r, path, body)
  /\ UNCHANGED server

\* the 'end' handler of the upstream stream, then the 'end' listener that
\* response.data.pipe(res) registered after it, which calls res.end()
StreamEndHandler(r) ==
  IF reqs[r].streamEnded
  THEN /\ reqs' = [reqs EXCEPT ![r].upEnd = TRUE,
                               ![r].effects = Append(@, "respond")]
       /\ UNCHANGED <<appState, events, subs>>
  ELSE /\ reqs' = [reqs EXCEPT ![r].upEnd = TRUE, ![r].streamEnded = TRUE,
                               ![r].effects = @ \o <<"record", "respond">>]
       /\ appState' = RecordCompleted(appState, r)
       /\ Broadcast(Append(events, InferenceComplete(r)))

StreamErrorHandlerNoGuard(r) ==
  /\ reqs' = [reqs EXCEPT ![r].upError = TRUE, ![r].streamEnded = TRUE,
                          ![r].effects = IF reqs[r].headersSent THEN @
                                         ELSE Append(@, "respond")]
  /\ appState' = IncErrors(appState)
  /\ Broadcast(Append(events, ProxyError(r)))

\* the 'error' handler of the upstream stream
StreamErrorHandler(r) ==
  IF reqs[r].streamEnded
  THEN /\ reqs' = [reqs EXCEPT ![r].upError = TRUE]
       /\ UNCHANGED <<appState, events, subs>>
  ELSE /\ reqs' = [reqs EXCEPT ![r].upError = TRUE, ![r].streamEnded = TRUE,
                               \* if (!res.headersSent) res.status(500).end()
                               ![r].effects = IF reqs[r].headersSent THEN @
                                              ELSE Append(@, "respond")]
       /\ appState' = IncErrors(appState)
       /\ Broadcast(Append(events, ProxyError(r)))

\* the req 'close' handler registered by the streaming branch
ClientCloseHandler(r) ==
  IF reqs[r].streamEnded
  THEN /\ reqs' = [reqs EXCEPT ![r].closed = TRUE]
       /\ UNCHANGED <<appState, events, subs>>
  ELSE /\ reqs' = [reqs EXCEPT ![r].closed = TRUE, ![r].streamEnded = TRUE,
                               ![r].upDestroyed = TRUE]
       /\ UNCHANGED <<appState, events, subs>>

\* axios resolves (validateStatus accepts every status)
AxiosResolve(r) ==
  /\ reqs[r].pc = "axios"
  /\ IF Truthy(reqs[r].body.stream)
     THEN \* streaming branch: register the handlers, start piping
          /\ reqs' = [reqs EXCEPT ![r].pc = "streaming"]
          /\ UNCHANGED <<appState, events, subs>>
     ELSE \* non-streaming branch
          /\ reqs' = [reqs EXCEPT ![r].pc = "done",
                                  ![r].effects = @ \o <<"record", "respond">>]
          /\ appState' = RecordCompleted(appState, r)
          /\ Broadcast(Append(events, InferenceComplete(r)))
  /\ UNCHANGED <<responses, controlVars, ops, tailVars, server>>

\* axios rejects (connection refused, timeout): the catch block
AxiosReject(r) ==
  /\ reqs[r].pc = "axios"
  /\ reqs' = [reqs EXCEPT ![r].pc = "done",
                          ![r].effects = Append(@, "respond")]
  /\ appState' = IncErrors(appState)
  /\ Broadcast(Append(events, ProxyError(r)))
  /\ UNCHANGED <<responses, controlVars, ops, tailVars, server>>

\* the upstream stream emits 'end'
StreamEnd(r) ==
  /\ server.exitCode = Null
  /\ reqs[r].pc = "streaming"
  /\ ~reqs[r].upEnd /\ ~reqs[r].upDestroyed
  /\ StreamEndHandler(r)
  /\ UNCHANGED <<responses, controlVars, ops, tailVars, server>>

\* the upstream stream emits its first 'data': pipe writes the chunk to res,
\* which sends the response headers
StreamData(r) ==
  /\ reqs[r].pc = "streaming"
  /\ ~reqs[r].upEnd /\ ~reqs[r].upError /\ ~reqs[r].upDestroyed
  /\ ~reqs[r].headersSent
  /\ reqs' = [reqs EXCEPT ![r].headersSent = TRUE]
  /\ UNCHANGED <<appState, events, subs, responses, controlVars, ops, tailVars, server>>

\* the upstream stream emits 'error'
StreamError(r) ==
  /\ reqs[r].pc = "streaming"
  /\ ~reqs[r].upError /\ ~reqs[r].upDestroyed
  /\ StreamErrorHandler(r)
  /\ UNCHANGED <<responses, controlVars, ops, tailVars, server>>

\* the client goes away while the streaming branch is installed
ClientClose(r) ==
  /\ server.exitCode = Null
  /\ reqs[r].pc = "streaming"
  /\ ~reqs[r].closed
  /\ ClientCloseHandler(r)
  /\ UNCHANGED <<responses, controlVars, ops, tailVars, server>>

----------------------------------------------------------------------------
(* The request records over many requests.  Requests are numbered in the   *)
(* order they finish; only the finishing segment of each handler is kept.  *)

\* the n-th request finishes with a backend response: the non-streaming
\* branch (or the 'end' handler) updates the state and publishes
RequestCompleted ==
  LET n == appState.debugState.totalRequests + 1
  IN  /\ n <= MaxCompletions
      /\ appState' = RecordCompleted(appState, n)
      /\ Broadcast(Append(events, InferenceComplete(n)))
      /\ UNCHANGED <<responses, reqs, controlVars, ops, tailVars, server>>

\* a request fails in transport: the catch block
RequestFailed ==
  /\ appState.debugState.totalErrors < MaxFailures
  /\ appState' = IncErrors(appState)
  /\ Broadcast(Append(events, ProxyError(0)))
  /\ UNCHANGED <<responses, reqs, controlVars, ops, tailVars, server>>

----------------------------------------------------------------------------
(* Admin routes: request bodies and state updates *)

\* request bodies of POST /admin/models/load that have the activate field;
\* defaultInference is varied through the activate route only
LoadBodies ==
  [modelKey : ModelKeys \cup {""}, instanceId : InstanceIds,
   activate : {"true", "false"}, defaultInference : {NoDefaults}]

\* request bodies of POST /admin/models/load without the activate field
MinimalLoadBodies ==
  [modelKey : ModelKeys \cup {""}, instanceId : InstanceIds,
   activate : {Undef}, defaultInference : {NoDefaults}]

\* request bodies of POST /admin/models/unload
UnloadBodies == [modelKey : ModelKeys \cup {""}, instanceId : InstanceIds]

\* request bodies of POST /admin/models/activate
ActivateBodies ==
  [modelKey : ModelKeys \cup {""}, instanceId : InstanceIds,
   defaultInference : DefaultInferences]

\* the value of a JSON number, in tenths
Tenths(v) ==
  CASE v = "-1" -> 0 - 10 [] v = "-0.1" -> 0 - 1 [] v = "0" -> 0
    [] v = "0.2" -> 2 [] v = "0.5" -> 5 [] v = "1" -> 10 [] v = "1.1" -> 11
    [] v = "1.5" -> 15 [] v = "2" -> 20 [] v = "2.1" -> 21

\* DefaultInferenceSchema: one field that is present
FieldOk(f, v) ==
  CASE f = "temperature" -> Tenths(v) >= 0 /\ Tenths(v) <= 20
    [] f = "maxTokens" -> Tenths(v) % 10 = 0 /\ Tenths(v) > 0
    [] f = "topP" -> Tenths(v) >= 0 /\ Tenths(v) <= 10
    [] f = "topK" -> Tenths(v) % 10 = 0 /\ Tenths(v) >= 0
    [] f = "repeatPenalty" -> Tenths(v) >= 0
    [] f = "stream" -> v \in {"true", "false"}

\* DefaultInferenceSchema: every field is optional
DefaultInferenceSchema(d) ==
  \A f \in DOMAIN d : IF d[f] = Undef THEN TRUE ELSE FieldOk(f, d[f])

\* defaultInference records with every numeric field, at the bounds of the
\* schema and one step outside of them
AtBounds ==
  [temperature |-> "2", maxTokens |-> "1", topP |-> "1", topK |-> "0",
   repeatPenalty |-> "0", stream |-> Undef]
WideDefaults ==
  { [temperature |-> Undef, maxTokens |-> Undef, topP |-> Undef, topK |-> Undef,
     repeatPenalty |-> Undef, stream |-> Undef],
    AtBounds,
    [AtBounds EXCEPT !.temperature = "0"],
    [AtBounds EXCEPT !.temperature = "2.1"],
    [AtBounds EXCEPT !.temperature = "-0.1"],
    [AtBounds EXCEPT !.maxTokens = "0"],
    [AtBounds EXCEPT !.maxTokens = "1.5"],
    [AtBounds EXCEPT !.topP = "1.1"],
    [AtBounds EXCEPT !.topP = "-0.1"],
    [AtBounds EXCEPT !.topK = "-1"],
    [AtBounds EXCEPT !.topK = "0.5"],
    [AtBounds EXCEPT !.repeatPenalty = "-0.1"] }

\* load and activate bodies over these
WideLoadBodies ==
  [modelKey : {"m1", ""}, instanceId : {Undef},
   activate : {"true"}, defaultInference : WideDefaults]
WideActivateBodies ==
  [modelKey : {"m2", ""}, instanceId : {Undef},
   defaultInference : WideDefaults]

ValidBodyKeyOnly(body) == body.modelKey # ""

\* Zod: modelKey: z.string().min(1), defaultInference: DefaultInferenceSchema
ValidBody(body) ==
  /\ body.modelKey # ""
  /\ "defaultInference" \in DOMAIN body => DefaultInferenceSchema(body.defaultInference)

ParseLoadNoDefault(body) ==
  [modelKey |-> body.modelKey, instanceId |-> body.instanceId,
   activate |-> (body.activate = "true"),
   defaultInference |-> body.defaultInference]

\* LoadModelRequestSchema.parse: activate: z.boolean().default(true)
ParseLoad(body) ==
  [modelKey |-> body.modelKey, instanceId |-> body.instanceId,
   activate |-> (body.activate # "false"),
   defaultInference |-> body.defaultInference]

\* UnloadModelRequestSchema.parse
ParseUnload(body) ==
  [modelKey |-> body.modelKey, instanceId |-> body.instanceId,
   activate |-> FALSE, defaultInference |-> NoDefaults]

NoPayload == [modelKey |-> "", instanceId |-> Undef, activate |-> FALSE,
              defaultInference |-> NoDefaults]
NoTarget == [path |-> "", identifier |-> ""]

\* bodyActivate: the activate field of req.body, before parsing
InitOp == [kind |-> "none", pc |-> "free", payload |-> NoPayload,
           bodyActivate |-> Undef, session |-> 0, target |-> NoTarget]

\* handler slots are taken in order of arrival
IsNextOp(o) == ops[o].pc = "free" /\ \A p \in 1..(o - 1) : ops[p].pc # "free"

AdminEvent(t, op, key) == [type |-> t, operation |-> op, modelKey |-> key]

SetActiveKeyOnly(st, payload) ==
  [st EXCEPT !.activeModel.modelKey = payload.modelKey]

\* appState.activeModel = {modelKey, instanceId || null, defaultInference || {}}
SetActive(st, payload) ==
  [st EXCEPT !.activeModel =
     [modelKey |-> payload.modelKey, instanceId |-> OrNull(payload.instanceId),
      defaultInference |-> payload.defaultInference]]

\* status = 'loading_model'; currentOperation = {type, modelKey, ...}
BeginOperation(st, type, key) ==
  [st EXCEPT !.debugState.status = "loading_model",
             !.debugState.currentOperation = [type |-> type, modelKey |-> key]]

\* status = 'idle'; currentOperation = null
EndOperation(st) ==
  [st EXCEPT !.debugState.status = "idle",
             !.debugState.currentOperation = NoOperation]

ActivateOnLoadNever(st, payload) == st

\* load succeeded: "Activate model if requested"
ActivateOnLoad(st, payload) ==
  IF payload.activate THEN SetActive(st, payload) ELSE st

\* the catch blocks of the load route: inner (loadError) then outer
LoadFailed(st) ==
  [st EXCEPT !.debugState.status = "error",
             !.debugState.totalErrors = @ + 2]

LoadRejectedReset(st) ==
  [st EXCEPT !.debugState.status = "error",
             !.debugState.totalErrors = 0]

\* the outer catch block of the load route alone (validation error)
LoadRejected(st) ==
  [st EXCEPT !.debugState.status = "error",
             !.debugState.totalErrors = @ + 1]

\* the catch blocks of the unload route: inner (unloadError) then outer
UnloadFailed(st) ==
  [st EXCEPT !.debugState.status = "error",
             !.debugState.totalErrors = @ + 2,
             !.debugState.currentOperation = NoOperation]

UnloadRejectedClears(st) ==
  [st EXCEPT !.debugState.status = "error",
             !.debugState.totalErrors = @ + 1,
             !.debugState.currentOperation = NoOperation,
             !.activeModel = [modelKey |-> Null, instanceId |-> Null,
                              defaultInference |-> NoDefaults]]

\* the outer catch block of the unload route alone (validation error)
UnloadRejected(st) ==
  [st EXCEPT !.debugState.status = "error",
             !.debugState.totalErrors = @ + 1,
             !.debugState.currentOperation = NoOperation]

ClearActiveOnUnloadNever(st, payload) == st

\* unload succeeded: "Clear active model if it's the one being unloaded"
ClearActiveOnUnload(st, payload) ==
  IF /\ st.activeModel.modelKey = payload.modelKey
     /\ (~Truthy(payload.instanceId) \/ st.activeModel.instanceId = payload.instanceId)
  THEN [st EXCEPT !.activeModel = [modelKey |-> Null, instanceId |-> Null,
                                   defaultInference |-> NoDefaults]]
  ELSE st

\* loadedModels.find(...) of the unload route
UnloadMatches(payload, m) ==
  IF Truthy(payload.instanceId)
  THEN m.identifier = payload.instanceId
  ELSE m.path = payload.modelKey

\* the instance client.llm.load creates
LoadedInstance(payload) ==
  [path |-> payload.modelKey,
   identifier |-> IF Truthy(payload.instanceId) THEN payload.instanceId
                  ELSE payload.modelKey]

\* the error path of one handler (catch blocks, error events, error response),
\* applied to acc = [st, ev, rs]: AppState, published events, responses
OpFailure(acc, op) ==
  CASE op.kind = "load" ->
         [st |-> LoadFailed(acc.st),
          ev |-> acc.ev \o << AdminEvent("error", "model_load", op.payload.modelKey),
                              AdminEvent("error", "model_load", Undef) >>,
          rs |-> Append(acc.rs, [kind |-> "error", status |-> 500])]
    [] op.kind = "unload" ->
         [st |-> UnloadFailed(acc.st),
          ev |-> acc.ev \o << AdminEvent("error", "model_unload", op.payload.modelKey),
                              AdminEvent("error", "model_unload", Undef) >>,
          rs |-> Append(acc.rs, [kind |-> "error", status |-> 500])]
    [] OTHER ->
         [st |-> acc.st, ev |-> acc.ev,
          rs |-> Append(acc.rs, [kind |-> "error", status |-> 503])]

\* the error paths of the handlers ws, in the order they started to wait
RECURSIVE FailWaiters(_, _)
FailWaiters(ws, acc) ==
  IF ws = << >> THEN acc
  ELSE FailWaiters(Tail(ws), OpFailure(acc, ops[Head(ws)]))

\* the control-channel call a handler makes once it has the client
CallPc(kind) == CASE kind = "load" -> "loadCall"
                  [] kind = "unload" -> "listCall"
                  [] OTHER -> "modelsCall"

InCall(o) == ops[o].pc \in {"loadCall", "listCall", "unloadCall", "modelsCall"}

----------------------------------------------------------------------------
(* Control client: LMStudioClientService *)

maxRetries == 3

InitConn == [pc |-> "free", attempt |-> 0, session |-> 0, waiters |-> << >>]

\* the LMStudioClient object created by attempt a of connect invocation c
SessionOf(c, a) == (c - 1) * maxRetries + a

ConnInFlight(c) == conns[c].pc \in {"attempt", "delay"}

FreeConn == IF \E c \in ConnIds : conns[c].pc = "free"
            THEN CHOOSE c \in ConnIds :
                   /\ conns[c].pc = "free"
                   /\ \A d \in ConnIds : conns[d].pc = "free" => c <= d
            ELSE 0

GetClientCached(o, rec) ==
  IF client # 0
  THEN /\ ops' = [ops EXCEPT ![o] = [rec EXCEPT !.pc = CallPc(rec.kind),
                                               !.session = client]]
       /\ UNCHANGED <<connecting, conns>>
  ELSE IF \E c \in ConnIds : conns[c].pc = "failed"
  THEN /\ ops' = [ops EXCEPT ![o] = [rec EXCEPT !.pc = "waitConn"]]
       /\ conns' = [conns EXCEPT ![CHOOSE c \in ConnIds : conns[c].pc = "failed"].waiters =
                                  Append(@, o)]
       /\ UNCHANGED connecting
  ELSE /\ FreeConn # 0
       /\ conns' = [conns EXCEPT ![FreeConn] =
                      [pc |-> "attempt", attempt |-> 1, session |-> 0,
                       waiters |-> <<o>>]]
       /\ connecting' = FreeConn
       /\ ops' = [ops EXCEPT ![o] = [rec EXCEPT !.pc = "waitConn"]]

\* getClient() called by admin handler o, whose record becomes rec: with a
\* stored client the handler goes on to its call at once, else it awaits the
\* promise of the connect in flight, or of a new connect
GetClient(o, rec) ==
  IF client # 0
  THEN /\ ops' = [ops EXCEPT ![o] = [rec EXCEPT !.pc = CallPc(rec.kind),
                                               !.session = client]]
       /\ UNCHANGED <<connecting, conns>>
  ELSE IF connecting # 0
  THEN /\ ops' = [ops EXCEPT ![o] = [rec EXCEPT !.pc = "waitConn"]]
       /\ conns' = [conns EXCEPT ![connecting].waiters = Append(@, o)]
       /\ UNCHANGED connecting
  ELSE /\ FreeConn # 0
       /\ conns' = [conns EXCEPT ![FreeConn] =
                      [pc |-> "attempt", attempt |-> 1, session |-> 0,
                       waiters |-> <<o>>]]
       /\ connecting' = FreeConn
       /\ ops' = [ops EXCEPT ![o] = [rec EXCEPT !.pc = "waitConn"]]

Waiting(c) == {conns[c].waiters[i] : i \in 1..Len(conns[c].waiters)}

\* connect(): listDownloadedModels() of the current attempt succeeds; the
\* handlers awaiting the promise go on to their control-channel call
ConnectAttemptOk(c) ==
  /\ conns[c].pc = "attempt"
  /\ conns' = [conns EXCEPT ![c].pc = "ok",
                            ![c].session = SessionOf(c, conns[c].attempt),
                            ![c].waiters = << >>]
  /\ client' = SessionOf(c, conns[c].attempt)
  /\ connecting' = 0
  /\ ops' = [o \in OpIds |->
               IF o \in Waiting(c)
               THEN [ops[o] EXCEPT !.pc = CallPc(ops[o].kind),
                                   !.session = SessionOf(c, conns[c].attempt)]
               ELSE ops[o]]
  /\ UNCHANGED <<appState, events, subs, responses, reqs, backend, health, tailVars, server>>

ConnectAttemptFailRetry(c) ==
  /\ conns[c].pc = "attempt"
  /\ conns' = [conns EXCEPT ![c].pc = "delay"]
  /\ UNCHANGED <<connecting, ops, appState, events, subs, responses>>
  /\ UNCHANGED <<reqs, client, backend, health, tailVars, server>>

\* connect(): the current attempt fails; after the last attempt the promise
\* rejects and the handlers awaiting it take their error path
ConnectAttemptFail(c) ==
  /\ conns[c].pc = "attempt"
  /\ IF conns[c].attempt < maxRetries
     THEN /\ conns' = [conns EXCEPT ![c].pc = "delay"]
          /\ UNCHANGED <<connecting, ops, appState, events, subs, responses>>
     ELSE /\ conns' = [conns EXCEPT ![c].pc = "failed", ![c].waiters = << >>]
          /\ connecting' = 0
          /\ ops' = [o \in OpIds |->
                       IF o \in Waiting(c) THEN [ops[o] EXCEPT !.pc = "done"]
                       ELSE ops[o]]
          /\ LET acc == FailWaiters(conns[c].waiters,
                                    [st |-> appState, ev |-> events, rs |-> responses])
             IN  /\ appState' = acc.st
                 /\ Broadcast(acc.ev)
                 /\ responses' = acc.rs
  /\ UNCHANGED <<reqs, client, backend, health, tailVars, server>>

\* connect(): the retry delay is over, next attempt
ConnectRetry(c) ==
  /\ conns[c].pc = "delay"
  /\ conns' = [conns EXCEPT ![c].pc = "attempt", ![c].attempt = @ + 1]
  /\ UNCHANGED <<appState, events, subs, responses, reqs, client, connecting, backend,
                 health, ops, tailVars, server>>

\* disconnect()
Disconnect ==
  /\ client # 0
  /\ client' = 0
  /\ connecting' = 0
  /\ UNCHANGED <<appState, events, subs, responses, reqs, conns, backend, health, ops, tailVars, server>>

InitHealth == [pc |-> "free", session |-> 0]

\* healthCheck() up to its listDownloadedModels() call
HealthStart(h) ==
  /\ health[h].pc = "free"
  /\ \A g \in 1..(h - 1) : health[g].pc # "free"
  /\ IF client = 0
     THEN health' = [health EXCEPT ![h].pc = "false"]
     ELSE health' = [health EXCEPT ![h].pc = "call", ![h].session = client]
  /\ UNCHANGED <<appState, events, subs, responses, reqs, client, connecting, conns,
                 backend, ops, tailVars, server>>

\* healthCheck(): the call answers
HealthOk(h) ==
  /\ health[h].pc = "call"
  /\ health' = [health EXCEPT ![h].pc = "true"]
  /\ UNCHANGED <<appState, events, subs, responses, reqs, client, connecting, conns,
                 backend, ops, tailVars, server>>

\* healthCheck(): the call fails, the catch block invalidates the client
HealthFail(h) ==
  /\ health[h].pc = "call"
  /\ health' = [health EXCEPT ![h].pc = "false"]
  /\ client' = 0
  /\ connecting' = 0
  /\ UNCHANGED <<appState, events, subs, responses, reqs, conns, backend, ops, tailVars, server>>

----------------------------------------------------------------------------
(* Admin routes: POST /admin/models/load, /unload, /activate, GET /admin/models *)

\* POST /admin/models/load: parse throws, outer catch, global error handler
LoadInvalidRoute(o) ==
  /\ ops' = [ops EXCEPT ![o].kind = "load", ![o].pc = "done"]
  /\ appState' = LoadRejected(appState)
  /\ Broadcast(Append(events, AdminEvent("error", "model_load", Undef)))
  /\ responses' = Append(responses, [kind |-> "error", status |-> 400])
  /\ UNCHANGED <<reqs, controlVars, tailVars, server>>

\* POST /admin/models/load with a body that fails validation
LoadInvalid(o) ==
  /\ IsNextOp(o)
  /\ \E body \in LoadBodies : ~ValidBody(body)
  /\ LoadInvalidRoute(o)

\* POST /admin/models/load with a valid body: validation, state update,
\* start event, getClient()
LoadRoute(o, body) ==
  /\ ValidBody(body)
  /\ GetClient(o, [InitOp EXCEPT !.kind = "load", !.payload = ParseLoad(body),
                                 !.bodyActivate = body.activate])
  /\ appState' = BeginOperation(appState, "model_load", body.modelKey)
  /\ Broadcast(Append(events,
                      AdminEvent("model_load_start", "model_load", body.modelKey)))
  /\ UNCHANGED <<responses, reqs, client, backend, health, tailVars, server>>

\* POST /admin/models/load with any defaultInference, valid or not
LoadChecked(o) ==
  /\ IsNextOp(o)
  /\ \E body \in WideLoadBodies :
       IF ValidBody(body) THEN LoadRoute(o, body) ELSE LoadInvalidRoute(o)

\* POST /admin/models/load, activate given
LoadStart(o) ==
  /\ IsNextOp(o)
  /\ \E body \in LoadBodies : LoadRoute(o, body)

\* POST /admin/models/load, activate omitted
LoadStartMinimal(o) ==
  /\ IsNextOp(o)
  /\ \E body \in MinimalLoadBodies : LoadRoute(o, body)

\* POST /admin/models/unload with a body that fails validation
UnloadInvalid(o) ==
  /\ IsNextOp(o)
  /\ \E body \in UnloadBodies :
       /\ ~ValidBody(body)
       /\ ops' = [ops EXCEPT ![o].kind = "unload", ![o].pc = "done"]
  /\ appState' = UnloadRejected(appState)
  /\ Broadcast(Append(events, AdminEvent("error", "model_unload", Undef)))
  /\ responses' = Append(responses, [kind |-> "error", status |-> 400])
  /\ UNCHANGED <<reqs, controlVars, tailVars, server>>

\* POST /admin/models/unload: validation, state update, start event, getClient()
UnloadStart(o) ==
  /\ IsNextOp(o)
  /\ \E body \in UnloadBodies :
       /\ ValidBody(body)
       /\ GetClient(o, [InitOp EXCEPT !.kind = "unload", !.payload = ParseUnload(body)])
       /\ appState' = BeginOperation(appState, "model_unload", body.modelKey)
       /\ Broadcast(Append(events,
                           AdminEvent("model_unload_start", "model_unload", body.modelKey)))
  /\ UNCHANGED <<responses, reqs, client, backend, health, tailVars, server>>

\* GET /admin/models up to getClient()
ModelsStart(o) ==
  /\ IsNextOp(o)
  /\ GetClient(o, [InitOp EXCEPT !.kind = "models"])
  /\ UNCHANGED <<appState, events, subs, responses, reqs, client, backend, health, tailVars, server>>

\* client.llm.load() resolves
LoadCallOk(o) ==
  /\ ops[o].pc = "loadCall"
  /\ ops' = [ops EXCEPT ![o].pc = "done"]
  /\ backend' = backend \cup {LoadedInstance(ops[o].payload)}
  /\ appState' = EndOperation(ActivateOnLoad(appState, ops[o].payload))
  /\ Broadcast(Append(events, AdminEvent("model_load_complete", "model_load",
                                         ops[o].payload.modelKey)))
  /\ responses' = Append(responses,
        [kind |-> "loaded", status |-> 200, modelKey |-> ops[o].payload.modelKey,
         activated |-> ops[o].payload.activate])
  /\ UNCHANGED <<reqs, client, connecting, conns, health, tailVars, server>>

\* a call on the control channel made by handler o fails: error path
OpCallFail(o) ==
  /\ InCall(o)
  /\ ops' = [ops EXCEPT ![o].pc = "done"]
  /\ LET acc == OpFailure([st |-> appState, ev |-> events, rs |-> responses], ops[o])
     IN  /\ appState' = acc.st
         /\ Broadcast(acc.ev)
         /\ responses' = acc.rs
  /\ UNCHANGED <<reqs, controlVars, tailVars, server>>

\* unload route: client.llm.listLoaded() resolves, find the model to unload
ListLoadedOk(o) ==
  /\ ops[o].pc = "listCall"
  /\ IF \E m \in backend : UnloadMatches(ops[o].payload, m)
     THEN /\ \E m \in backend :
               /\ UnloadMatches(ops[o].payload, m)
               /\ ops' = [ops EXCEPT ![o].pc = "unloadCall", ![o].target = m]
          /\ UNCHANGED responses
     ELSE /\ ops' = [ops EXCEPT ![o].pc = "done"]
          /\ responses' = Append(responses,
                [kind |-> "not_found", status |-> 404,
                 modelKey |-> ops[o].payload.modelKey])
  /\ UNCHANGED <<appState, events, subs, reqs, controlVars, tailVars, server>>

\* unload route: modelToUnload.unload() resolves
UnloadCallOk(o) ==
  /\ ops[o].pc = "unloadCall"
  /\ ops' = [ops EXCEPT ![o].pc = "done"]
  /\ backend' = backend \ {ops[o].target}
  /\ appState' = EndOperation(ClearActiveOnUnload(appState, ops[o].payload))
  /\ Broadcast(Append(events, AdminEvent("model_unload_complete", "model_unload",
                                         ops[o].payload.modelKey)))
  /\ responses' = Append(responses,
        [kind |-> "unloaded", status |-> 200, modelKey |-> ops[o].payload.modelKey])
  /\ UNCHANGED <<reqs, client, connecting, conns, health, tailVars, server>>

\* GET /admin/models: both list calls resolve
ModelsCallOk(o) ==
  /\ ops[o].pc = "modelsCall"
  /\ ops' = [ops EXCEPT ![o].pc = "done"]
  /\ responses' = Append(responses, [kind |-> "models", status |-> 200])
  /\ UNCHANGED <<appState, events, subs, reqs, controlVars, tailVars, server>>

CountKind(k) == Cardinality({i \in 1..Len(responses) : responses[i].kind = k})

\* POST /admin/models/activate: the route handler
ActivateRoute ==
  /\ CountKind("activated") < MaxActivate
  /\ \E body \in ActivateBodies :
       /\ ValidBody(body)
       /\ appState' = SetActive(appState, body)
       /\ Broadcast(Append(events, AdminEvent("model_activate", Undef, body.modelKey)))
       /\ responses' = Append(responses,
             [kind |-> "activated", status |-> 200, modelKey |-> body.modelKey,
              instanceId |-> OrNull(body.instanceId),
              defaultInference |-> appState'.activeModel.defaultInference])
  /\ UNCHANGED <<reqs, controlVars, ops, tailVars>>

\* POST /admin/models/activate
Activate == ActivateRoute /\ UNCHANGED server

\* POST /admin/models/activate: parse throws, catch, global error handler
ActivateInvalidRoute ==
  /\ CountKind("error") < MaxRejected
  /\ appState' = IncErrors(appState)
  /\ Broadcast(Append(events, AdminEvent("error", "model_activate", Undef)))
  /\ responses' = Append(responses, [kind |-> "error", status |-> 400])
  /\ UNCHANGED <<reqs, controlVars, ops, tailVars, server>>

\* POST /admin/models/activate with any defaultInference, valid or not
ActivateChecked ==
  \E body \in WideActivateBodies :
    IF ValidBody(body)
    THEN /\ CountKind("activated") < MaxActivate
         /\ appState' = SetActive(appState, body)
         /\ Broadcast(Append(events, AdminEvent("model_activate", Undef, body.modelKey)))
         /\ responses' = Append(responses,
               [kind |-> "activated", status |-> 200, modelKey |-> body.modelKey,
                instanceId |-> OrNull(body.instanceId),
                defaultInference |-> appState'.activeModel.defaultInference])
         /\ UNCHANGED <<reqs, controlVars, ops, tailVars, server>>
    ELSE ActivateInvalidRoute

\* GET /debug/status
DebugStatus ==
  /\ CountKind("status") < MaxStatus
  /\ responses' = Append(responses,
        [kind |-> "status", status |-> 200,
         state |-> appState.debugState.status,
         currentOperation |-> appState.debugState.currentOperation,
         activeModel |-> appState.activeModel,
         totalRequests |-> appState.debugState.totalRequests,
         totalErrors |-> appState.debugState.totalErrors])
  /\ UNCHANGED <<appState, events, subs, reqs, controlVars, ops, tailVars, server>>

\* Math.round(x * 100) / 100 of x = (errors / requests) * 100, in hundredths
\* of a percent
ErrorRate(errors, requests) ==
  IF requests > 0 THEN (2 * 10000 * errors + requests) \div (2 * requests) ELSE 0

\* GET /debug/metrics: the performance block
DebugMetrics ==
  /\ CountKind("metrics") < MaxMetrics
  /\ responses' = Append(responses,
        [kind |-> "metrics", status |-> 200,
         totalRequests |-> appState.debugState.totalRequests,
         totalErrors |-> appState.debugState.totalErrors,
         errorRate |-> ErrorRate(appState.debugState.totalErrors,
                                 appState.debugState.totalRequests)])
  /\ UNCHANGED <<appState, events, subs, reqs, controlVars, ops, tailVars, server>>

----------------------------------------------------------------------------
(* Requests through the access filter; startup and shutdown *)

routeFrame == <<appState, events, subs, reqs, controlVars, ops, tailVars>>

\* the process starts with environment st: settings are parsed once
Configure(st) ==
  /\ ~server.configured
  /\ server' = [server EXCEPT !.settings = st, !.configured = TRUE]
  /\ UNCHANGED <<responses, routeFrame>>

\* GET /health
HealthRoute ==
  /\ responses' = Append(responses, [kind |-> "health", status |-> 200])
  /\ UNCHANGED routeFrame

\* the route a request that passed the middleware is dispatched to
Route(q) ==
  IF q.path = "/health" THEN HealthRoute
  ELSE IF q.path = "/admin/models/activate" THEN ActivateRoute
  ELSE \E r \in Reqs : \E body \in ProxyBodies : ProxyEntry(r, q.path, body)

RejectedThenNext(q, code) == Route(q)

\* a middleware answers 403 / 401 and returns without calling next()
Rejected(q, code) ==
  /\ responses' = Append(responses, [kind |-> "rejected", status |-> code])
  /\ UNCHANGED routeFrame

\* a request arrives: ipAllowlistMiddleware, apiKeyMiddleware, then its route
Request(q) ==
  /\ server.listening
  /\ Len(server.log) < MaxFiltered
  /\ LET v == Verdict(q, server.settings)
     IN  /\ server' = [server EXCEPT !.configured = TRUE,
                                     !.log = Append(@, [req |-> q, verdict |-> v])]
         /\ IF v = "pass" THEN Route(q) ELSE Rejected(q, v)

\* connections server.close() waits for: SSE streams whose client is there,
\* proxied requests not yet answered
OpenConnections ==
  {<<"sse", s>> : s \in {t \in SubIds : subs[t].pc = "open"}}
    \cup {<<"proxy", r>> : r \in {t \in Reqs :
             \/ reqs[t].pc = "axios"
             \/ /\ reqs[t].pc = "streaming"
                /\ ~reqs[t].closed
                /\ \A i \in 1..Len(reqs[t].effects) : reqs[t].effects[i] # "respond"}}

\* SIGTERM or SIGINT: shutdown() calls server.close(callback)
Signal ==
  /\ ~server.closing
  /\ server' = [server EXCEPT !.closing = TRUE, !.listening = FALSE]
  /\ UNCHANGED <<responses, routeFrame>>

\* every connection has ended: the close callback calls process.exit(0)
ServerClosed ==
  /\ server.closing
  /\ server.exitCode = Null
  /\ OpenConnections = {}
  /\ server' = [server EXCEPT !.exitCode = "0"]
  /\ UNCHANGED <<responses, routeFrame>>

----------------------------------------------------------------------------
(* Log tailer: LMStudioLogMonitor, and the log directory it follows *)

\* month directories, in lexicographic order of their names, and log files
Dirs == {1, 2}
Files == {1, 2, 3}
DirOf(f) == IF f = 3 THEN 2 ELSE 1

\* file contents are sequences of bytes; log line k is <<Hd(k), Tl(k), NL>>,
\* where Hd(k) stands for "[timestamp][LEVEL]" and Tl(k) for the message
NL == 0
Zero == 0 - 1
Hd(k) == 2 * k - 1
Tl(k) == 2 * k
Line(k) == <<Hd(k), Tl(k)>>
PreLine == MaxLines + 1     \* the line already in the log when the gateway starts

InitFile == [exists |-> FALSE, content |-> << >>, mtime |-> 0]

InitFs(pre) ==
  [ dirs |-> {1},
    files |-> [f \in Files |->
                 IF f = 1 THEN [exists |-> TRUE, content |-> pre, mtime |-> 1]
                 ELSE InitFile],
    clock |-> 1,            \* source of modification times
    current |-> 1,          \* the file the backend writes to (the last created)
    lines |-> 0,            \* lines appended so far
    partial |-> 0,          \* bytes written of a line not yet complete
    truncs |-> 0 ]          \* truncations so far

InitMon ==
  [ pc |-> "new",             \* start(): new, stat, running
    currentLogFile |-> 0,     \* 0 = null
    currentMonthDir |-> 0,    \* 0 = null
    filePosition |-> 0,
    watcher |-> 0,            \* directory of this.watcher, 0 = null
    watching |-> {},          \* directories with a live (unclosed) watcher
    addPending |-> {},        \* 'add' events not yet delivered
    changePending |-> {},     \* 'change' events not yet delivered
    dirPending |-> {},        \* 'addDir' events of the parent watcher
    atStart |-> << >>,        \* the active file as start() found it
    resumeDue |-> FALSE ]     \* the cursor was reset and nothing was read since

InitTask ==
  [ kind |-> "none", pc |-> "free", file |-> 0, fileSize |-> 0, pos |-> 0,
    len |-> 0, data |-> << >>, mtime |-> 0, dir |-> 0, old |-> 0, closing |-> 0 ]

TaskIds == 1..MaxTasks

FreeTask == IF \E t \in TaskIds : tasks[t].pc = "free"
            THEN CHOOSE t \in TaskIds :
                   /\ tasks[t].pc = "free"
                   /\ \A u \in TaskIds : tasks[u].pc = "free" => t <= u
            ELSE 0

Max(S) == CHOOSE x \in S : \A y \in S : y <= x

FilesIn(d) == {f \in Files : fs.files[f].exists /\ DirOf(f) = d}

\* findLatestLogFile: the file of the directory with the greatest mtime
LatestIn(d) ==
  IF FilesIn(d) = {} THEN 0
  ELSE CHOOSE f \in FilesIn(d) :
         \A g \in FilesIn(d) :
            \/ fs.files[g].mtime < fs.files[f].mtime
            \/ (fs.files[g].mtime = fs.files[f].mtime /\ f <= g)

\* what read(buffer, 0, len, pos) leaves in a zero-filled buffer
ReadBuffer(content, pos, len) ==
  [i \in 1..len |-> IF pos + i <= Len(content) THEN content[pos + i] ELSE Zero]

\* newContent.split('\n').filter(line => line.trim().length > 0)
RECURSIVE SplitLines(_, _)
SplitLines(buf, cur) ==
  IF buf = << >> THEN (IF cur = << >> THEN << >> ELSE <<cur>>)
  ELSE IF Head(buf) = NL
       THEN (IF cur = << >> THEN << >> ELSE <<cur>>) \o SplitLines(Tail(buf), << >>)
       ELSE SplitLines(Tail(buf), Append(cur, Head(buf)))

\* parseLogLine: the regular expression is anchored at the start of the line
parseLogLine(line) == line # << >> /\ line[1] > 0 /\ line[1] % 2 = 1

\* processLogLine over the lines read: one debug_log per line that parses
RECURSIVE ProcessLines(_)
ProcessLines(ls) ==
  IF ls = << >> THEN << >>
  ELSE (IF parseLogLine(Head(ls))
        THEN << [type |-> "debug_log", raw |-> Head(ls)] >>
        ELSE << >>) \o ProcessLines(Tail(ls))

\* chokidar.watch(dir) with ignoreInitial: false
NewWatcher(m, d) ==
  [m EXCEPT !.watcher = d,
            !.watching = @ \cup {d},
            !.addPending = @ \cup FilesIn(d)]

tailFrame == <<appState, responses, reqs, controlVars, ops, server>>

\* --- the backend writing its logs ---

\* the backend appends one complete line to a log file
AppendLine(f) ==
  /\ f = fs.current
  /\ fs.lines < MaxLines
  /\ fs.partial = 0
  /\ fs' = [fs EXCEPT !.lines = @ + 1, !.clock = @ + 1,
                      !.files[f].content = @ \o <<Hd(fs.lines + 1), Tl(fs.lines + 1), NL>>,
                      !.files[f].mtime = fs.clock + 1]
  /\ mon' = IF DirOf(f) \in mon.watching
            THEN [mon EXCEPT !.changePending = @ \cup {f}] ELSE mon
  /\ UNCHANGED <<events, subs, tasks, tailFrame>>

\* the backend writes the next n bytes of the line it is writing: a line
\* reaches the file in one write, or its header first and the rest later
WriteChunk(f, n) ==
  /\ f = fs.current
  /\ fs.lines < MaxWritten
  /\ fs.partial + n \in {1, 3}
  /\ LET k == PreLine + 1 + fs.lines
         done == fs.partial + n = 3
     IN  fs' = [fs EXCEPT !.clock = @ + 1,
                          !.lines = IF done THEN @ + 1 ELSE @,
                          !.partial = IF done THEN 0 ELSE fs.partial + n,
                          !.files[f].content =
                             @ \o SubSeq(<<Hd(k), Tl(k), NL>>, fs.partial + 1, fs.partial + n),
                          !.files[f].mtime = fs.clock + 1]
  /\ mon' = IF DirOf(f) \in mon.watching
            THEN [mon EXCEPT !.changePending = @ \cup {f}] ELSE mon
  /\ UNCHANGED <<events, subs, tasks, tailFrame>>

\* a log file is truncated in place
Truncate(f) ==
  /\ f = fs.current
  /\ fs.files[f].content # << >>
  /\ fs.truncs < MaxTruncate
  /\ fs' = [fs EXCEPT !.truncs = @ + 1, !.clock = @ + 1,
                      !.files[f].content = << >>,
                      !.files[f].mtime = fs.clock + 1]
  /\ mon' = IF DirOf(f) \in mon.watching
            THEN [mon EXCEPT !.changePending = @ \cup {f}] ELSE mon
  /\ UNCHANGED <<events, subs, tasks, tailFrame>>

\* the backend rotates to a new log file (its month directory exists)
CreateFile(f) ==
  /\ f > fs.current
  /\ DirOf(f) \in fs.dirs
  /\ fs' = [fs EXCEPT !.clock = @ + 1, !.current = f,
                      !.files[f] = [exists |-> TRUE, content |-> << >>,
                                    mtime |-> fs.clock + 1]]
  /\ mon' = IF DirOf(f) \in mon.watching
            THEN [mon EXCEPT !.addPending = @ \cup {f}] ELSE mon
  /\ UNCHANGED <<events, subs, tasks, tailFrame>>

\* a new month directory appears under the log root
CreateDir(d) ==
  /\ d \notin fs.dirs
  /\ fs' = [fs EXCEPT !.dirs = @ \cup {d}]
  /\ mon' = IF mon.pc = "running"
            THEN [mon EXCEPT !.dirPending = @ \cup {d}] ELSE mon
  /\ UNCHANGED <<events, subs, tasks, tailFrame>>

\* --- start() ---

\* start(): findCurrentMonthLogDir, findLatestLogFile, up to fs.stat
StartFind ==
  /\ mon.pc = "new"
  /\ \E now \in Dirs :
       LET d == IF now \in fs.dirs THEN now ELSE Max(fs.dirs)
       IN  /\ LatestIn(d) # 0
           /\ mon' = [mon EXCEPT !.pc = "stat", !.currentMonthDir = d,
                                 !.currentLogFile = LatestIn(d)]
  /\ UNCHANGED <<fs, events, subs, tasks, tailFrame>>

\* start(): filePosition = stats.size, watchers and timers installed
StartStat ==
  /\ mon.pc = "stat"
  /\ mon' = NewWatcher([mon EXCEPT !.pc = "running",
                          !.filePosition = Len(fs.files[mon.currentLogFile].content),
                          !.atStart = fs.files[mon.currentLogFile].content],
                       mon.currentMonthDir)
  /\ UNCHANGED <<fs, events, subs, tasks, tailFrame>>

\* --- readNewLogLines() ---

\* entry of readNewLogLines, up to fs.stat(this.currentLogFile)
ReadEnter(t) ==
  /\ mon.currentLogFile # 0
  /\ tasks' = [tasks EXCEPT ![t] = [InitTask EXCEPT !.kind = "read", !.pc = "stat",
                                                   !.file = mon.currentLogFile]]

\* the 1-second polling interval fires
PollTick ==
  /\ mon.pc = "running"
  /\ FreeTask # 0
  /\ ReadEnter(FreeTask)
  /\ UNCHANGED <<fs, mon, events, subs, tailFrame>>

\* the watcher delivers 'change' for a file of its directory
WatcherChange(f) ==
  /\ f \in mon.changePending
  /\ DirOf(f) \in mon.watching
  /\ mon' = [mon EXCEPT !.changePending = @ \ {f}]
  /\ IF f = mon.currentLogFile
     THEN FreeTask # 0 /\ ReadEnter(FreeTask)
     ELSE UNCHANGED tasks
  /\ UNCHANGED <<fs, events, subs, tailFrame>>

\* stat resolved: truncation check, "no new data" check, up to fs.open
ReadStat(t) ==
  /\ tasks[t].kind = "read" /\ tasks[t].pc = "stat"
  /\ LET size == Len(fs.files[tasks[t].file].content)
         pos  == IF size < mon.filePosition THEN 0 ELSE mon.filePosition
     IN  /\ mon' = [mon EXCEPT !.filePosition = pos,
                               !.resumeDue = @ \/ size < mon.filePosition]
         /\ IF size = pos
            THEN tasks' = [tasks EXCEPT ![t] = InitTask]
            ELSE tasks' = [tasks EXCEPT ![t].pc = "open", ![t].fileSize = size,
                                        ![t].file = mon.currentLogFile]
  /\ UNCHANGED <<fs, events, subs, tailFrame>>

\* open resolved: Buffer.alloc(fileSize - filePosition), up to fileHandle.read
ReadOpen(t) ==
  /\ tasks[t].kind = "read" /\ tasks[t].pc = "open"
  /\ IF tasks[t].fileSize - mon.filePosition < 0
     THEN \* Buffer.alloc throws a RangeError: the catch block logs it
          /\ tasks' = [tasks EXCEPT ![t] = InitTask]
          /\ UNCHANGED mon
     ELSE /\ tasks' = [tasks EXCEPT ![t].pc = "read",
                                    ![t].len = tasks[t].fileSize - mon.filePosition,
                                    ![t].pos = mon.filePosition]
          /\ mon' = [mon EXCEPT !.resumeDue = FALSE]
  /\ UNCHANGED <<fs, events, subs, tailFrame>>

\* read resolved, up to fileHandle.close
ReadRead(t) ==
  /\ tasks[t].kind = "read" /\ tasks[t].pc = "read"
  /\ tasks' = [tasks EXCEPT ![t].pc = "close",
                 ![t].data = ReadBuffer(fs.files[tasks[t].file].content,
                                        tasks[t].pos, tasks[t].len)]
  /\ UNCHANGED <<fs, mon, events, subs, tailFrame>>

\* the cursor after a read
NewPosition(fileSize, pos, len) == fileSize

\* close resolved: the cursor moves, the lines read are processed
ReadClose(t) ==
  /\ tasks[t].kind = "read" /\ tasks[t].pc = "close"
  /\ mon' = [mon EXCEPT !.filePosition =
               NewPosition(tasks[t].fileSize, tasks[t].pos, tasks[t].len)]
  /\ Broadcast(events \o ProcessLines(SplitLines(tasks[t].data, << >>)))
  /\ tasks' = [tasks EXCEPT ![t] = InitTask]
  /\ UNCHANGED <<fs, tailFrame>>

\* --- the 'add' handler (log rotation inside the directory) ---

\* the watcher delivers 'add' for a .log file, up to fs.stat(filePath)
WatcherAdd(f) ==
  /\ f \in mon.addPending
  /\ DirOf(f) \in mon.watching
  /\ FreeTask # 0
  /\ mon' = [mon EXCEPT !.addPending = @ \ {f}]
  /\ tasks' = [tasks EXCEPT ![FreeTask] =
                 [InitTask EXCEPT !.kind = "add", !.pc = "statNew", !.file = f]]
  /\ UNCHANGED <<fs, events, subs, tailFrame>>

\* stat(filePath) resolved, up to fs.stat(this.currentLogFile)
AddStatNew(t) ==
  /\ tasks[t].kind = "add" /\ tasks[t].pc = "statNew"
  /\ IF mon.currentLogFile # 0
     THEN /\ tasks' = [tasks EXCEPT ![t].pc = "statCur",
                                    ![t].mtime = fs.files[tasks[t].file].mtime,
                                    ![t].old = mon.currentLogFile]
          /\ UNCHANGED mon
     ELSE /\ tasks' = [tasks EXCEPT ![t] = InitTask]
          /\ mon' = [mon EXCEPT !.currentLogFile = tasks[t].file, !.filePosition = 0]
  /\ UNCHANGED <<fs, events, subs, tailFrame>>

\* stat(currentLogFile) resolved: switch if the new file is more recent
AddStatCur(t) ==
  /\ tasks[t].kind = "add" /\ tasks[t].pc = "statCur"
  /\ IF tasks[t].mtime > fs.files[tasks[t].old].mtime
     THEN mon' = [mon EXCEPT !.currentLogFile = tasks[t].file, !.filePosition = 0]
     ELSE UNCHANGED mon
  /\ tasks' = [tasks EXCEPT ![t] = InitTask]
  /\ UNCHANGED <<fs, events, subs, tailFrame>>

\* --- checkForNewerMonthDirectory() and switchToNewDirectory() ---

\* entry of checkForNewerMonthDirectory, up to fs.readdir
MonthEnter(t) ==
  /\ mon.currentMonthDir # 0
  /\ tasks' = [tasks EXCEPT ![t] = [InitTask EXCEPT !.kind = "month", !.pc = "readdir"]]

\* the 10-minute interval fires
MonthTick ==
  /\ mon.pc = "running"
  /\ FreeTask # 0
  /\ MonthEnter(FreeTask)
  /\ UNCHANGED <<fs, mon, events, subs, tailFrame>>

\* the parent watcher delivers 'addDir' for a YYYY-MM directory
ParentAddDir(d) ==
  /\ d \in mon.dirPending
  /\ FreeTask # 0
  /\ mon' = [mon EXCEPT !.dirPending = @ \ {d}]
  /\ MonthEnter(FreeTask)
  /\ UNCHANGED <<fs, events, subs, tailFrame>>

\* is there a newer month directory: newestMonthDirName > currentMonthDirName
IsNewer(newest, current) == newest > current

\* readdir resolved: compare the newest month directory with the current
\* one; switchToNewDirectory runs up to findLatestLogFile
MonthReaddir(t) ==
  /\ tasks[t].kind = "month" /\ tasks[t].pc = "readdir"
  /\ IF IsNewer(Max(fs.dirs), mon.currentMonthDir)
     THEN tasks' = [tasks EXCEPT ![t].pc = "findLatest", ![t].dir = Max(fs.dirs),
                                 ![t].old = mon.currentMonthDir]
     ELSE tasks' = [tasks EXCEPT ![t] = InitTask]
  /\ UNCHANGED <<fs, mon, events, subs, tailFrame>>

\* the state update and the event of switchToNewDirectory
SwitchDirectory(m, t) ==
  NewWatcher([m EXCEPT !.watching = @ \ {tasks[t].closing},
                       !.currentMonthDir = tasks[t].dir,
                       !.currentLogFile = tasks[t].file,
                       !.filePosition = 0],
             tasks[t].dir)

MonthTransition(t) ==
  [type |-> "lmstudio_month_transition", oldDirectory |-> tasks[t].old,
   newDirectory |-> tasks[t].dir, newLogFile |-> tasks[t].file]

\* findLatestLogFile resolved, up to watcher.close()
MonthFindLatest(t) ==
  /\ tasks[t].kind = "month" /\ tasks[t].pc = "findLatest"
  /\ IF LatestIn(tasks[t].dir) = 0
     THEN tasks' = [tasks EXCEPT ![t] = InitTask]
     ELSE tasks' = [tasks EXCEPT ![t].pc = "closing",
                                 ![t].file = LatestIn(tasks[t].dir),
                                 ![t].closing = mon.watcher]
  /\ UNCHANGED <<fs, mon, events, subs, tailFrame>>

\* watcher.close() resolved: switch, new watcher, lmstudio_month_transition
MonthSwitch(t) ==
  /\ tasks[t].kind = "month" /\ tasks[t].pc = "closing"
  /\ mon' = SwitchDirectory(mon, t)
  /\ Broadcast(Append(events, MonthTransition(t)))
  /\ tasks' = [tasks EXCEPT ![t] = InitTask]
  /\ UNCHANGED <<fs, tailFrame>>

----------------------------------------------------------------------------
(* Specifications *)

Init ==
  /\ appState = InitAppState
  /\ events = << >>
  /\ responses = << >>
  /\ reqs = [r \in Reqs |-> InitReq]
  /\ client = 0
  /\ connecting = 0
  /\ conns = [c \in ConnIds |-> InitConn]
  /\ backend = {}
  /\ health = [h \in HealthIds |-> InitHealth]
  /\ ops = [o \in OpIds |-> InitOp]
  /\ \E pre \in {<< >>, <<Hd(PreLine), Tl(PreLine), NL>>} : fs = InitFs(pre)
  /\ mon = InitMon
  /\ tasks = [t \in TaskIds |-> InitTask]
  /\ subs = [s \in SubIds |-> InitSub]
  /\ server = InitServer

\* the proxy path, with activate requests changing the active model
NextProxy ==
  \/ \E r \in Reqs : ProxyStart(r)
  \/ \E r \in Reqs : AxiosResolve(r)
  \/ \E r \in Reqs : AxiosReject(r)
  \/ \E r \in Reqs : StreamData(r)
  \/ \E r \in Reqs : StreamEnd(r)
  \/ \E r \in Reqs : StreamError(r)
  \/ \E r \in Reqs : ClientClose(r)
  \/ Activate

SpecProxy == Init /\ [][NextProxy]_vars

\* the event bus: publishers, SSE connections and their clients
NextBus ==
  \/ \E type \in BusEventTypes : Publish(type)
  \/ \E s \in SubIds : SseConnect(s)
  \/ \E s \in SubIds : KeepAlive(s)
  \/ \E s \in SubIds : Drain(s)
  \/ \E s \in SubIds : ClientGone(s)
  \/ \E s \in SubIds : SseClose(s)

SpecBus == Init /\ [][NextBus]_vars

\* Node dispatches the 'close' event of every connection whose socket closed
SpecBusFair == SpecBus /\ \A s \in SubIds : WF_vars(SseClose(s))

\* request augmentation: the active model set by activate, any client body
NextAugment ==
  \/ Activate
  \/ \E r \in Reqs : ProxyStartAny(r)

SpecAugment == Init /\ [][NextAugment]_vars

\* the access filter in front of the routes, for every environment
NextFilter ==
  \/ \E st \in SettingsSet : Configure(st)
  \/ \E q \in ClientRequests : Request(q)

SpecFilter == Init /\ [][NextFilter]_vars

\* shutdown with SSE connections and proxied requests open
NextShutdown ==
  \/ Signal
  \/ ServerClosed
  \/ \E s \in SubIds : SseConnect(s)
  \/ \E s \in SubIds : ClientGone(s)
  \/ \E s \in SubIds : SseClose(s)
  \/ \E r \in Reqs : ProxyStart(r)
  \/ \E r \in Reqs : AxiosResolve(r)
  \/ \E r \in Reqs : AxiosReject(r)
  \/ \E r \in Reqs : StreamEnd(r)
  \/ \E r \in Reqs : ClientClose(r)

\* the gateway and the backend take their steps; clients may stay forever
SpecShutdown ==
  /\ Init /\ [][NextShutdown]_vars
  /\ WF_vars(ServerClosed)
  /\ \A s \in SubIds : WF_vars(SseClose(s))
  /\ \A r \in Reqs : WF_vars(AxiosResolve(r)) /\ WF_vars(StreamEnd(r))

\* readNewLogLines over one log file written in chunks and truncated
NextRead ==
  \/ \E f \in Files : \E n \in 1..3 : WriteChunk(f, n)
  \/ \E f \in Files : Truncate(f)
  \/ StartFind
  \/ StartStat
  \/ PollTick
  \/ \E f \in Files : WatcherChange(f)
  \/ \E t \in TaskIds : ReadStat(t)
  \/ \E t \in TaskIds : ReadOpen(t)
  \/ \E t \in TaskIds : ReadRead(t)
  \/ \E t \in TaskIds : ReadClose(t)

SpecRead == Init /\ [][NextRead]_vars

\* proxy requests, rejected admin requests and /debug/metrics interleaved
NextMixed ==
  \/ \E r \in Reqs : ProxyStart(r)
  \/ \E r \in Reqs : AxiosResolve(r)
  \/ \E r \in Reqs : AxiosReject(r)
  \/ \E o \in AdminOps : LoadInvalid(o)
  \/ \E o \in AdminOps : UnloadInvalid(o)
  \/ DebugMetrics

SpecMixed == Init /\ [][NextMixed]_vars

\* admin requests whose bodies pass or fail validation
NextValidate ==
  \/ ActivateChecked
  \/ \E o \in AdminOps : LoadChecked(o)
  \/ \E o \in AdminOps : UnloadInvalid(o)
  \/ \E o \in AdminOps : UnloadStart(o)
  \/ \E o \in AdminOps : LoadCallOk(o)
  \/ \E o \in AdminOps : ListLoadedOk(o)
  \/ \E o \in AdminOps : UnloadCallOk(o)
  \/ \E c \in ConnIds : ConnectAttemptOk(c)

SpecValidate == Init /\ [][NextValidate]_vars

\* load requests with and without the activate field
NextLoad ==
  \/ \E o \in AdminOps : LoadStart(o)
  \/ \E o \in AdminOps : LoadStartMinimal(o)
  \/ \E o \in AdminOps : LoadCallOk(o)
  \/ \E o \in AdminOps : OpCallFail(o)
  \/ \E c \in ConnIds : ConnectAttemptOk(c)
  \/ \E c \in ConnIds : ConnectAttemptFail(c)
  \/ \E c \in ConnIds : ConnectRetry(c)
  \/ Activate

SpecLoad == Init /\ [][NextLoad]_vars

\* the request records over more than RingSize requests
NextRing ==
  \/ RequestCompleted
  \/ RequestFailed

SpecRing == Init /\ [][NextRing]_vars

\* the admin routes and /debug/status, over the control client
NextAdmin ==
  \/ \E o \in AdminOps : LoadInvalid(o)
  \/ \E o \in AdminOps : LoadStart(o)
  \/ \E o \in AdminOps : UnloadInvalid(o)
  \/ \E o \in AdminOps : UnloadStart(o)
  \/ \E o \in AdminOps : LoadCallOk(o)
  \/ \E o \in AdminOps : OpCallFail(o)
  \/ \E o \in AdminOps : ListLoadedOk(o)
  \/ \E o \in AdminOps : UnloadCallOk(o)
  \/ \E c \in ConnIds : ConnectAttemptOk(c)
  \/ \E c \in ConnIds : ConnectAttemptFail(c)
  \/ \E c \in ConnIds : ConnectRetry(c)
  \/ Activate
  \/ DebugStatus

SpecAdmin == Init /\ [][NextAdmin]_vars

\* the control client under GET /admin/models, healthCheck and disconnect
NextClient ==
  \/ \E o \in OpIds : ModelsStart(o)
  \/ \E o \in OpIds : ModelsCallOk(o)
  \/ \E o \in OpIds : OpCallFail(o)
  \/ \E c \in ConnIds : ConnectAttemptOk(c)
  \/ \E c \in ConnIds : ConnectAttemptFail(c)
  \/ \E c \in ConnIds : ConnectRetry(c)
  \/ \E h \in HealthIds : HealthStart(h)
  \/ \E h \in HealthIds : HealthOk(h)
  \/ \E h \in HealthIds : HealthFail(h)
  \/ Disconnect

SpecClient == Init /\ [][NextClient]_vars

\* the log tailer and the backend writing its logs
NextTail ==
  \/ \E f \in Files : AppendLine(f)
  \/ \E f \in Files : Truncate(f)
  \/ \E f \in Files : CreateFile(f)
  \/ \E d \in Dirs : CreateDir(d)
  \/ StartFind
  \/ StartStat
  \/ PollTick
  \/ \E f \in Files : WatcherChange(f)
  \/ \E t \in TaskIds : ReadStat(t)
  \/ \E t \in TaskIds : ReadOpen(t)
  \/ \E t \in TaskIds : ReadRead(t)
  \/ \E t \in TaskIds : ReadClose(t)
  \/ \E f \in Files : WatcherAdd(f)
  \/ \E t \in TaskIds : AddStatNew(t)
  \/ \E t \in TaskIds : AddStatCur(t)
  \/ MonthTick
  \/ \E d \in Dirs : ParentAddDir(d)
  \/ \E t \in TaskIds : MonthReaddir(t)
  \/ \E t \in TaskIds : MonthFindLatest(t)
  \/ \E t \in TaskIds : MonthSwitch(t)

SpecTail == Init /\ [][NextTail]_vars

----------------------------------------------------------------------------
(* Properties *)

\* the events carrying request id r, in publish order
EventsOf(ev, r) ==
  SelectSeq(ev, LAMBDA e : "requestId" \in DOMAIN e /\ e.requestId = r)

HasEvent(ev, type, r) ==
  \E i \in 1..Len(ev) : /\ ev[i].type = type
                        /\ "requestId" \in DOMAIN ev[i]
                        /\ ev[i].requestId = r

Terminal == {"inference_complete", "error"}

\* C1: the events carrying a request id are inference_start, then at most
\* one terminal event (inference_complete or error): never two terminal
\* events, never a terminal event before inference_start
C1_EventOrder ==
  \A r \in Reqs :
    LET s == EventsOf(events, r)
    IN  /\ Len(s) <= 2
        /\ (Len(s) >= 1 => s[1].type = "inference_start")
        /\ (Len(s) = 2 => s[2].type \in Terminal)

\* C1 witness: a streaming request whose upstream emitted both 'end' and
\* 'error', and whose client went away, with its two events published
C1_Witness ==
  \E r \in Reqs :
    /\ reqs[r].upEnd /\ reqs[r].upError /\ reqs[r].closed
    /\ Len(EventsOf(events, r)) = 2

\* the handling of request r is over: nothing more will be published for it
Over(r) ==
  \/ reqs[r].pc = "done"
  \/ reqs[r].pc = "streaming" /\ reqs[r].streamEnded

\* C2: every proxied request that published inference_start gets its
\* terminal event, however it ends; stated on the final result: once the
\* handling of a request is over, a terminal event carries its id
C2_TerminalPublished ==
  \A r \in Reqs :
    Over(r) => \E t \in Terminal : HasEvent(events, t, r)

\* C3: when the client of a streaming request disconnects before the
\* upstream stream ended, an error event with the request id is published,
\* no inference_complete, and totalErrors increases by exactly 1
C3_DisconnectIsError ==
  [][ \A r \in Reqs :
        ( /\ reqs[r].pc = "streaming"
          /\ ~reqs[r].streamEnded
          /\ ~reqs[r].closed
          /\ reqs'[r].closed )
        => ( /\ HasEvent(events', "error", r)
             /\ ~HasEvent(events', "inference_complete", r)
             /\ appState'.debugState.totalErrors =
                  appState.debugState.totalErrors + 1 ) ]_vars

\* the number of debug_log events published for log line k
Published(k) ==
  Cardinality({i \in 1..Len(events) :
                 events[i].type = "debug_log" /\ events[i].raw[1] = Hd(k)})

\* C4: each well-formed line of the backend log is published as debug_log
\* at most once, whatever the interleaving of poll, change notifications,
\* truncation, rotation and month transition
C4_AtMostOnce == \A k \in 1..PreLine : Published(k) <= 1

\* the number of lmstudio_month_transition events published for directory d
Transitions(d) ==
  Cardinality({i \in 1..Len(events) :
                 /\ events[i].type = "lmstudio_month_transition"
                 /\ events[i].newDirectory = d})

\* C5: a new month directory gets one lmstudio_month_transition event, never
\* two, also when the periodic scan and the parent watcher both detect it
C5_OneTransition == \A d \in Dirs : Transitions(d) <= 1

\* C6: at most one load or unload call to the backend is outstanding
C6_OneOutstanding ==
  Cardinality({o \in OpIds : ops[o].pc \in {"loadCall", "unloadCall"}}) <= 1

\* C7: currentOperation is only assigned when it is null: the step that
\* starts a load or unload (it publishes the start event) finds it null
C7_AssignedWhenNull ==
  [][ ( /\ Len(events') = Len(events) + 1
        /\ events'[Len(events')].type \in {"model_load_start", "model_unload_start"} )
      => appState.debugState.currentOperation = NoOperation ]_vars

\* C8: two connect sequences are never in flight at the same time
C8_SingleConnect ==
  Cardinality({c \in ConnIds : ConnInFlight(c)}) <= 1

\* C9: after a control-channel call of a handler fails, the stored session
\* is cleared
C9_SessionCleared ==
  [][ \A o \in OpIds :
        ( /\ InCall(o)
          /\ ops'[o].pc = "done"
          /\ Len(responses') = Len(responses) + 1
          /\ responses'[Len(responses')].kind = "error" )
        => client' = 0 ]_vars

\* responses i < j: a successful load with activate at i, the next
\* /debug/status at j, and no response of a kind in ks strictly between
LoadThenStatus(i, j, ks) ==
  /\ i < j
  /\ responses[i].kind = "loaded" /\ responses[i].activated
  /\ responses[j].kind = "status"
  /\ \A k \in (i + 1)..(j - 1) : responses[k].kind \notin ks \cup {"status"}

\* C10 as stated: after a load with activate=true succeeded, the next
\* /debug/status reports the requested key unless an activate interleaved
C10_Original ==
  \A i, j \in 1..Len(responses) :
    LoadThenStatus(i, j, {"activated"})
      => responses[j].activeModel.modelKey = responses[i].modelKey

\* C10 amended: ... unless an activate, another successful load or a
\* successful unload was answered in between
C10_Amended ==
  \A i, j \in 1..Len(responses) :
    LoadThenStatus(i, j, {"activated", "loaded", "unloaded"})
      => responses[j].activeModel.modelKey = responses[i].modelKey

\* C10 witness: a load with activate succeeded while another admin request
\* was in progress, and /debug/status was answered next
C10_Witness ==
  \E i, j \in 1..Len(responses) :
    /\ LoadThenStatus(i, j, {"activated", "loaded", "unloaded"})
    /\ j = i + 1
    /\ \E o \in OpIds : ops[o].pc \in {"loadCall", "listCall", "unloadCall"}

----------------------------------------------------------------------------
(* Request records and counters *)

\* position of the first occurrence of x in sequence q, 0 if absent
FirstIndex(q, x) ==
  IF \E i \in 1..Len(q) : q[i] = x
  THEN CHOOSE i \in 1..Len(q) : q[i] = x /\ \A j \in 1..(i - 1) : q[j] # x
  ELSE 0

\* C15 (as stated): for every completed proxied request the record is
\* appended and total_requests incremented only after the response was sent
\* to the client: in the handler's effects "respond" comes before "record".
\* The code updates the state first and responds afterwards.
C15_RecordAfterResponse ==
  \A r \in Reqs :
    LET e == reqs[r].effects
    IN  FirstIndex(e, "record") # 0 =>
          /\ FirstIndex(e, "respond") # 0
          /\ FirstIndex(e, "respond") < FirstIndex(e, "record")

\* C16: recent_requests never holds more than 100 records and always equals
\* the most recent min(n, 100) of the n records appended so far, in append
\* order (records are numbered 1..n in append order).
C16_RingBuffer ==
  LET rr == appState.debugState.recentRequests
      n  == appState.debugState.totalRequests
      k  == IF n < RingSize THEN n ELSE RingSize
  IN  /\ Len(rr) <= RingSize
      /\ Len(rr) = k
      /\ \A i \in 1..k : rr[i].requestId = n - k + i

\* C16 witness: the 101st completion has evicted record 1
C16_Witness ==
  LET rr == appState.debugState.recentRequests
  IN  /\ appState.debugState.totalRequests = RingSize + 1
      /\ Len(rr) = RingSize
      /\ rr[1].requestId = 2
      /\ rr[RingSize].requestId = RingSize + 1

\* the number of request records created so far
RECURSIVE RecordsCreated(_)
RecordsCreated(R) ==
  IF R = {} THEN 0
  ELSE LET r == CHOOSE x \in R : TRUE
       IN  Len(SelectSeq(reqs[r].effects, LAMBDA x : x = "record"))
             + RecordsCreated(R \ {r})

\* C17: total_requests is at least the number of request records created
C17_TotalAtLeastRecords ==
  appState.debugState.totalRequests >= RecordsCreated(Reqs)

\* C17 witness: two requests have completed, one of them streamed
C17_Witness ==
  /\ RecordsCreated(Reqs) = 2
  /\ \E r \in Reqs : reqs[r].upEnd

\* C18: a proxied request that fails (axios rejects, or the upstream stream
\* errors) increases total_errors by exactly 1, does not increase
\* total_requests and appends no record; a failed request never has a record.
C18_FailureCounted ==
  /\ [][\A r \in Reqs :
          events' = Append(events, ProxyError(r)) =>
            /\ appState'.debugState.totalErrors
                 = appState.debugState.totalErrors + 1
            /\ appState'.debugState.totalRequests
                 = appState.debugState.totalRequests
            /\ appState'.debugState.recentRequests
                 = appState.debugState.recentRequests]_vars
  /\ [](\A r \in Reqs :
          HasEvent(events, "error", r) =>
            /\ FirstIndex(reqs[r].effects, "record") = 0
            /\ \A i \in 1..Len(appState.debugState.recentRequests) :
                 appState.debugState.recentRequests[i].requestId # r)

\* C18 witness: one request failed in transport and one by a stream error
C18_Witness ==
  /\ \E r \in Reqs : HasEvent(events, "error", r) /\ reqs[r].pc = "done"
  /\ \E r \in Reqs : HasEvent(events, "error", r) /\ reqs[r].upError
  /\ appState.debugState.totalErrors = 2
  /\ appState.debugState.totalRequests = 0

\* C19 (as stated): a load request whose backend load call fails sets status
\* to error and increases total_errors by exactly 1.  The code runs both
\* catch blocks of the route and counts the failure twice.
C19_LoadFailureCountedOnce ==
  [][ \A o \in OpIds :
        ( /\ ops[o].kind = "load"
          /\ ops[o].pc = "loadCall"
          /\ ops'[o].pc = "done"
          /\ responses'[Len(responses')].kind = "error" )
        => /\ appState'.debugState.status = "error"
           /\ appState'.debugState.totalErrors
                = appState.debugState.totalErrors + 1 ]_vars

\* C20 (as stated): whenever no load or unload is in progress,
\* current_operation is null, also after a failed load and after an unload
\* answered 404.  The code leaves it set on both paths.
C20_NullWhenIdle ==
  (\A o \in OpIds : ops[o].pc \in {"free", "done"})
    => appState.debugState.currentOperation = NoOperation

----------------------------------------------------------------------------
(* Event bus *)

\* the event numbers a connection's client was sent, in wire order: what it
\* has read followed by what the response still buffers
Delivered(s) ==
  SelectSeq(subs[s].rcvd \o subs[s].buf, LAMBDA c : c.k = "event")

\* C11: each SSE subscriber receives a subsequence of the published events
\* in publish order: every delivered event was published, and the delivered
\* event numbers are strictly increasing (no reordering, no duplicate).
C11_SubsequenceInOrder ==
  \A s \in SubIds :
    LET d == Delivered(s)
    IN  /\ \A i \in 1..Len(d) : d[i].n \in 1..Len(events)
        /\ \A i \in 1..Len(d) : \A j \in 1..Len(d) : i < j => d[i].n < d[j].n

\* C11 witness: a subscriber that connected after event 1 has read events 2
\* and 3 (event 1 is a gap for it)
C11_Witness ==
  \E s \in SubIds :
    LET r == SelectSeq(subs[s].rcvd, LAMBDA c : c.k = "event")
    IN  Len(r) = 2 /\ r[1].n = 2 /\ r[2].n = 3

\* C12: a slow or failing SSE subscriber never blocks or fails the publisher
\* and never keeps the event from the other subscribers: publishing stays
\* possible whatever the subscribers' state, and a step that publishes hands
\* the event to every connection whose listener is registered and whose
\* socket is open.
C12_PublisherNotBlocked ==
  /\ [](Len(events) < MaxEvents => ENABLED Publish("debug_log"))
  /\ [][ Len(events') = Len(events) + 1 =>
          \A s \in SubIds :
            (subs[s].listening /\ subs[s].pc = "open") =>
              subs'[s].buf = Append(subs[s].buf, Chunk("event", Len(events'))) ]_vars

\* C12 witness: connection 1 is broken but still registered (its client went
\* away, the 'close' handler has not run), an event was published since, and
\* connection 2, which has a backlog, holds that event
C12_Witness ==
  /\ subs[1].pc = "gone" /\ subs[1].listening
  /\ Len(events) > subs[1].goneAt
  /\ subs[2].pc = "open"
  /\ Len(subs[2].buf) >= 2
  /\ subs[2].buf[Len(subs[2].buf)] = Chunk("event", Len(events))

\* C13 (as stated): each subscriber's outbound queue has a fixed capacity;
\* an event published while it is full is dropped for that subscriber, so
\* what is buffered for a subscriber that does not read stays within the
\* capacity.  The code buffers every event.
C13_QueueBounded ==
  \A s \in SubIds : Len(subs[s].buf) <= MaxQueue

----------------------------------------------------------------------------
(* Current operation and active model *)

\* C21 (as stated): while a model load or unload is in progress,
\* current_operation is non-null, even if another load or unload finished in
\* the meantime.  The code lets the operation that finishes first reset it.
C21_SetWhileInProgress ==
  (\E o \in OpIds : /\ ops[o].kind \in {"load", "unload"}
                     /\ ops[o].pc \notin {"free", "done"})
    => appState.debugState.currentOperation # NoOperation

\* the loaded instance m is the one the active model am names: by instance
\* id when it has one, by model key otherwise
Designates(am, m) ==
  IF Truthy(am.instanceId) THEN m.identifier = am.instanceId
  ELSE Truthy(am.modelKey) /\ m.path = am.modelKey

\* C22 (as stated): after a successful unload, if the instance that was
\* unloaded is the one active_model designates, active_model is cleared.
\* The code compares the request's model_key instead of the unloaded instance.
C22_UnloadedIsCleared ==
  [][ \A o \in OpIds :
        ( /\ ops[o].pc = "unloadCall"
          /\ ops'[o].pc = "done"
          /\ responses'[Len(responses')].kind = "unloaded"
          /\ Designates(appState.activeModel, ops[o].target) )
        => appState'.activeModel.modelKey = Null ]_vars

\* C23: a successful load({k, activate: true}) followed by a successful
\* unload({k}) leaves active_model.model_key null: when the unload of key k
\* (no instance id) is answered right after the load of k was, the active
\* model is cleared.
C23_LoadThenUnloadClears ==
  [][ \A o \in OpIds :
        ( /\ ops[o].pc = "unloadCall"
          /\ ops'[o].pc = "done"
          /\ responses'[Len(responses')].kind = "unloaded"
          /\ ~Truthy(ops[o].payload.instanceId)
          /\ Len(responses) > 0
          /\ responses[Len(responses)].kind = "loaded"
          /\ responses[Len(responses)].activated
          /\ responses[Len(responses)].modelKey = ops[o].payload.modelKey )
        => appState'.activeModel.modelKey = Null ]_vars

\* C23 witness: load of k with activate answered, then unload of k answered,
\* and no model is active
C23_Witness ==
  /\ Len(responses) = 2
  /\ responses[1].kind = "loaded" /\ responses[1].activated
  /\ responses[2].kind = "unloaded"
  /\ responses[2].modelKey = responses[1].modelKey
  /\ appState.activeModel.modelKey = Null

----------------------------------------------------------------------------
(* Control client: connect *)

\* C29: a connect makes at most 3 attempts; when all 3 fail it ends with the
\* backend-unavailable error: there is no fourth attempt, a connect that is
\* retrying has attempts left, and one that failed made exactly 3.
C29_ThreeAttempts ==
  \A c \in ConnIds :
    /\ conns[c].attempt <= 3
    /\ conns[c].pc = "delay" => conns[c].attempt < 3
    /\ conns[c].pc = "failed" => conns[c].attempt = 3

\* C29 witness: a connect failed after its third attempt while another,
\* started later, succeeded on a retry
C29_Witness ==
  \E c, e \in ConnIds :
    /\ conns[c].pc = "failed" /\ conns[c].attempt = 3
    /\ conns[e].pc = "ok" /\ conns[e].attempt = 2

----------------------------------------------------------------------------
(* Request augmentation *)

\* C25 (as stated): augmentation never overwrites a field the client
\* provided: a completion request whose body has model, or a sampling field,
\* is forwarded with the client's value for it.  The code treats an empty
\* model as absent and replaces it.
C25_ClientFieldsKept ==
  \A r \in Reqs :
    reqs[r].pc # "new" =>
      /\ reqs[r].clientBody.model # Undef
           => reqs[r].body.model = reqs[r].clientBody.model
      /\ reqs[r].clientBody.temperature # Undef
           => reqs[r].body.temperature = reqs[r].clientBody.temperature
      /\ reqs[r].clientBody.stream # Undef
           => reqs[r].body.stream = reqs[r].clientBody.stream

\* C26: a POST to /chat/completions without a model field, while the active
\* model has instance id I, is forwarded with model = I
C26_InstanceIdPreferred ==
  [][ \A r \in Reqs :
        ( /\ reqs[r].pc = "new" /\ reqs'[r].pc = "axios"
          /\ reqs'[r].path = "/v1/chat/completions"
          /\ reqs'[r].clientBody.model = Undef
          /\ Truthy(appState.activeModel.instanceId) )
        => reqs'[r].body.model = appState.activeModel.instanceId ]_vars

\* C26 witness: a request without model was forwarded with the instance id
\* of the active model, whose model key is different
C26_Witness ==
  \E r \in Reqs :
    /\ reqs[r].pc = "axios"
    /\ reqs[r].path = "/v1/chat/completions"
    /\ reqs[r].clientBody.model = Undef
    /\ appState.activeModel.instanceId = "i1"
    /\ appState.activeModel.modelKey = "m1"
    /\ reqs[r].body.model = "i1"

----------------------------------------------------------------------------
(* Access filter *)

\* C27: a request rejected by the access filter (403 or 401) reaches no
\* route handler: the step changes no AppState, publishes no event and
\* starts no backend call.
C27_RejectedIsTerminal ==
  [][ ( /\ Len(server'.log) = Len(server.log) + 1
        /\ server'.log[Len(server'.log)].verdict # "pass" )
      => /\ UNCHANGED <<appState, events, subs, reqs, ops, controlVars>>
         /\ responses'[Len(responses')].kind = "rejected" ]_vars

\* C27 witness: after an activate that passed and set the active model, a
\* request was rejected with 401
C27_Witness ==
  /\ Len(server.log) = 2
  /\ server.log[1].verdict = "pass"
  /\ server.log[1].req.path = "/admin/models/activate"
  /\ server.log[2].verdict = "401"
  /\ appState.activeModel.modelKey # Null

\* C28: a request passes the shared-secret check if and only if the secret
\* is empty, or the path is /health and require_auth_for_health is false, or
\* its X-API-Key header equals the secret (requests the address check
\* rejected never get to the secret check).
C28_SecretCheck ==
  \A i \in 1..Len(server.log) :
    LET q == server.log[i].req
        st == server.settings
    IN  server.log[i].verdict # "403" =>
          ( server.log[i].verdict = "pass" <=>
              \/ st.gatewayApiKey = ""
              \/ (q.path = "/health" /\ ~st.requireAuthForHealth)
              \/ q.apiKey = st.gatewayApiKey )

\* C28 witness: with a secret set and health open, an anonymous /health
\* passed and an anonymous request to another path was rejected
C28_Witness ==
  /\ server.settings.gatewayApiKey = "k1"
  /\ ~server.settings.requireAuthForHealth
  /\ Len(server.log) = 2
  /\ server.log[1].req.path = "/health" /\ server.log[1].req.apiKey = Undef
  /\ server.log[1].verdict = "pass"
  /\ server.log[2].req.path # "/health" /\ server.log[2].req.apiKey = Undef
  /\ server.log[2].verdict = "401"

----------------------------------------------------------------------------
(* Shutdown *)

\* C30 (as stated): after a termination signal the gateway stops accepting
\* new connections and eventually exits with code 0, also with open
\* /debug/stream subscribers or streaming proxy requests.  The code waits
\* for every open connection to end by itself.
C30_ExitsAfterSignal ==
  /\ [][ server.closing =>
          /\ \A s \in SubIds : subs[s].pc = "free" => subs'[s].pc = "free"
          /\ \A r \in Reqs : reqs[r].pc = "new" => reqs'[r].pc = "new" ]_vars
  /\ server.closing ~> (server.exitCode = "0")

----------------------------------------------------------------------------
(* Log tailer *)

\* the debug_log events published so far
DebugLogs == SelectSeq(events, LAMBDA e : e.type = "debug_log")

\* C31 (as stated): lines already present in the active log file when the
\* tailer starts are never published; only lines appended after the start
\* are.  A read that overlaps a switch to a rotated file starts again from
\* byte 0 of the old file.
C31_NoBackfill ==
  \A i \in 1..Len(DebugLogs) :
    \A l \in 1..Len(SplitLines(mon.atStart, << >>)) :
      DebugLogs[i].raw # SplitLines(mon.atStart, << >>)[l]

----------------------------------------------------------------------------
(* Load without the activate field *)

\* C32: a load request that omits activate is treated as activate=true:
\* when it succeeds, active_model becomes the loaded model
C32_ActivateDefaultsTrue ==
  [][ \A o \in OpIds :
        ( /\ ops[o].kind = "load" /\ ops[o].pc = "loadCall"
          /\ ops'[o].pc = "done"
          /\ responses' # responses
          /\ responses'[Len(responses')].kind = "loaded"
          /\ ops[o].bodyActivate = Undef )
        => /\ responses'[Len(responses')].activated
           /\ appState'.activeModel.modelKey = ops[o].payload.modelKey
           /\ appState'.activeModel.instanceId = OrNull(ops[o].payload.instanceId) ]_vars

\* C32 witness: a load without activate succeeded while another model was
\* active, and the loaded model is now the active one
C32_Witness ==
  \E o \in OpIds :
    /\ ops[o].kind = "load" /\ ops[o].pc = "done"
    /\ ops[o].bodyActivate = Undef
    /\ ops[o].payload.modelKey = "m2"
    /\ Len(responses) = 2
    /\ responses[1].kind = "activated" /\ responses[1].modelKey = "m1"
    /\ responses[2].kind = "loaded"
    /\ appState.activeModel.modelKey = "m2"

----------------------------------------------------------------------------
(* Log tailer: the read cursor *)

\* C33 (as stated): when the active log file is found smaller than the read
\* cursor, the cursor is reset to 0 and reading resumes from the start of
\* the file; after every read the cursor is not greater than the file size
\* observed by that read.  A read that began before the truncation and
\* ends after the reset moves the cursor forward again, so the next bytes
\* read are not those at the start of the file.
C33_ResetOnShrink ==
  [][ \A t \in TaskIds :
        /\ ( /\ tasks[t].kind = "read" /\ tasks[t].pc = "stat"
             /\ tasks'[t].pc # "stat"
             /\ Len(fs.files[tasks[t].file].content) < mon.filePosition )
           => mon'.filePosition = 0
        /\ ( /\ tasks[t].kind = "read" /\ tasks[t].pc = "open"
             /\ tasks'[t].pc = "read"
             /\ mon.resumeDue )
           => tasks'[t].pos = 0
        /\ ( /\ tasks[t].kind = "read" /\ tasks[t].pc = "close"
             /\ tasks'[t].pc = "free" )
           => mon'.filePosition <= tasks[t].fileSize ]_vars

\* the complete lines a log file can hold
CompleteLines == {Line(k) : k \in 1..(PreLine + 1 + MaxWritten)}

\* C34 (as stated): every debug_log event carries one complete line of the
\* log file: a line whose bytes arrive across two successive reads is
\* published once in full, never truncated, split or lost.  The read
\* publishes what it got up to the observed size; the rest of the line is
\* dropped by the next read.
C34_WholeLines ==
  \A i \in 1..Len(DebugLogs) : DebugLogs[i].raw \in CompleteLines

----------------------------------------------------------------------------
(* Admin operations: terminal events *)

\* the load and unload handlers that end in this step, after their start
\* event was published
Finishing ==
  {o \in OpIds : /\ ops[o].kind \in {"load", "unload"}
                 /\ ops[o].pc \notin {"free", "done"}
                 /\ ops'[o].pc = "done"}

\* C35 (as stated): every model_load_start or model_unload_start event is
\* followed by exactly one terminal event for that operation: the matching
\* complete event, or one error event.  Checked where the operation ends:
\* the step that ends handlers publishes one event for each of them.  A
\* failed load or unload publishes two error events.
C35_OneTerminalEvent ==
  [][ Finishing # {} => Len(events') = Len(events) + Cardinality(Finishing) ]_vars

----------------------------------------------------------------------------
(* Counters and the error rate *)

\* C36: total_requests and total_errors never decrease, under any sequence
\* or interleaving of proxy and admin requests
C36_CountersMonotonic ==
  [][ /\ appState'.debugState.totalRequests >= appState.debugState.totalRequests
      /\ appState'.debugState.totalErrors >= appState.debugState.totalErrors ]_vars

\* C36 witness: a proxy request completed, another one failed while an
\* unload request was rejected
C36_Witness ==
  /\ appState.debugState.totalRequests = 1
  /\ appState.debugState.totalErrors = 2
  /\ \E o \in OpIds : ops[o].kind = "unload" /\ ops[o].pc = "done"
  /\ \E i \in 1..Len(responses) : responses[i].status = 400

\* C37 (as stated): the errorRate reported by /debug/metrics always lies
\* between 0 and 100 (here in hundredths of a percent).  Failed requests
\* are counted in totalErrors only, so the quotient exceeds 1.
C37_ErrorRateRange ==
  \A i \in 1..Len(responses) :
    responses[i].kind = "metrics"
      => responses[i].errorRate >= 0 /\ responses[i].errorRate <= 10000

----------------------------------------------------------------------------
(* Control client: a call after a failed connect *)

\* C38: after a connect has exhausted its attempts and failed, a later
\* call starts a new connect sequence: a caller that has to wait for a
\* connection waits for a connect that is still running (a new one, at its
\* first attempt, when none is), never for one that has ended
C38_NewConnectAfterFailure ==
  [][ \A o \in OpIds :
        (ops[o].pc = "free" /\ ops'[o].pc = "waitConn")
        => \E c \in ConnIds :
             /\ \E i \in 1..Len(conns'[c].waiters) : conns'[c].waiters[i] = o
             /\ conns'[c].pc \in {"attempt", "delay"}
             /\ connecting = 0 => (conns[c].pc = "free" /\ conns'[c].attempt = 1) ]_vars

\* C38 witness: a connect failed after its last attempt, and a caller that
\* arrived afterwards waits for the first attempt of a new one
C38_Witness ==
  \E c, e \in ConnIds :
    /\ conns[c].pc = "failed" /\ conns[c].attempt = maxRetries
    /\ conns[e].pc = "attempt" /\ conns[e].attempt = 1
    /\ conns[e].waiters # << >>
    /\ connecting = e

----------------------------------------------------------------------------
(* Validation of admin requests *)

\* C39: an admin request rejected by body validation is answered 400,
\* makes no call to the backend control channel, and leaves active_model
\* unchanged
C39_RejectedLeavesState ==
  [][ ( /\ Len(responses') = Len(responses) + 1
        /\ responses'[Len(responses')].status = 400 )
      => /\ appState'.activeModel = appState.activeModel
         /\ backend' = backend
         /\ UNCHANGED <<client, connecting, conns>>
         /\ \A o \in OpIds : ops'[o].pc \notin {"free", "done"} => ops'[o] = ops[o] ]_vars

\* C39 witness: with an active model set, an unload request and one more
\* request were rejected with 400, and the active model is still the one set
C39_Witness ==
  /\ Len(responses) = 3
  /\ responses[1].kind = "activated" /\ responses[1].modelKey = "m2"
  /\ responses[2].status = 400 /\ responses[3].status = 400
  /\ appState.debugState.totalErrors = 2
  /\ appState.activeModel.modelKey = "m2"
  /\ \E o \in OpIds : ops[o].kind = "unload" /\ ops[o].pc = "done"

\* C40: the default_inference stored in active_model always satisfies the
\* schema bounds (temperature in [0,2], top_p in [0,1], max_tokens a
\* positive integer, top_k a non-negative integer, repeat_penalty >= 0),
\* after any sequence of load, activate and unload requests
C40_DefaultsWithinBounds ==
  DefaultInferenceSchema(appState.activeModel.defaultInference)

\* C40 witness: defaults at the bounds were stored by a load, after a
\* request with a value outside the bounds was rejected
C40_Witness ==
  /\ appState.activeModel.defaultInference = AtBounds
  /\ \E i \in 1..Len(responses) : responses[i].kind = "loaded"
  /\ \E i \in 1..Len(responses) : responses[i].status = 400

====
